---- MODULE Spec2Model ----
(***************************************************************************)
(* chowsr: group voting on nearby restaurants.                             *)
(*                                                                         *)
(* The module models                                                       *)
(*   - the pure status logic of server/logic.js (threshold, consensus,     *)
(*     winner selection, votingComplete),                                  *)
(*   - the HTTP handlers of the server application (createApp) over the    *)
(*     tables of the SQLite layer (db.js), with one action per handler     *)
(*     step between two awaits.  What a handler answers is a function of   *)
(*     the state it ran in (the ...Response operators).                    *)
(*                                                                         *)
(*   - the rate limiter of server/logic.js in front of the lookup route,   *)
(*   - the restaurant lookup of server/osm.js: its caches, the backends it *)
(*     tries in turn and the pipeline from raw elements to restaurants.    *)
(*                                                                         *)
(* Ten specifications share the variables:                                 *)
(*   Spec           the HTTP state machine,                                *)
(*   SpecInvites    the same with batches of several invite entries,       *)
(*   SpecGroups     the same with two groups side by side,                 *)
(*   SpecRefresh    the same with several lookups of one group in flight,  *)
(*   SpecLimiter    the same behind createRateLimiter, with group codes in *)
(*                  several spellings and lookups that settle late,        *)
(*   SpecLogic      computeStatus applied to drawn inputs,                 *)
(*   SpecWinner     computeWinner applied to drawn summaries and lists,    *)
(*   SpecThreshold  computeStatus applied to drawn member counts,          *)
(*   SpecPipeline   the lookup pipeline applied to drawn raw elements,     *)
(*   SpecFetch      calls of fetchRestaurants over time.                   *)
(***************************************************************************)
EXTENDS Integers, Sequences, FiniteSets, Bags, TLC

VARIABLES
    now,          \* the clock read by nowMs() / nowIso()
    groups,       \* table groups: group id -> row, or NoGroup
    invites,      \* table invites: set of rows
    members,      \* table members: sequence of rows in joined_at order
    restaurants,  \* table restaurants: group id -> list of scoped ids
    votes,        \* table votes: set of rows
    inflight,     \* bag of the handlers suspended at an await
    nextId,       \* how many ids createId() has handed out for invites
    sends,        \* sendResultNotification calls: member id -> count
    hits,         \* the rate limiter's Map: client key -> bucket, or NoValue
    geocodeCache,     \* osm.js: geocode cache key -> entry, or NoValue
    restaurantCache,  \* osm.js: restaurant cache key -> entry, or NoValue
    call,         \* SpecFetch: the fetchRestaurants call and the upstreams it contacted
    env,          \* the requests clients send and what the upstream services answer
    arg,          \* the pure specifications: the drawn input
    ret           \* the pure specifications: the value returned

vars == <<now, groups, invites, members, restaurants, votes, inflight,
          nextId, sends, hits, geocodeCache, restaurantCache, call, env, arg, ret>>

osmVars == <<geocodeCache, restaurantCache, call>>

dbVars == <<groups, invites, members, restaurants, votes>>

(***************************************************************************)
(* Bounds                                                                  *)
(***************************************************************************)
MaxTime == 2          \* the clock stops here
MaxMembers == 2       \* joins stop at this many members
MaxInvites == 2       \* invite ids handed out
MaxInflight == 2      \* handlers suspended at an await, in all
MaxLookups == 1       \* restaurant lookups in flight
MaxNotifying == 1     \* invite notifications in flight
MaxBatch == 2         \* entries of a submitted batch, in SpecInvites
MaxLimit == 2         \* the largest cap of the rate limiter, in SpecLimiter
MaxWindowMs == 1      \* the longest window of the rate limiter, in SpecLimiter
MaxElements == 3      \* raw elements of a drawn list, in SpecPipeline
MaxCount == 120
MaxLogicMembers == 3
MaxYes == 2
MaxNo == 1

(***************************************************************************)
(* Values                                                                  *)
(***************************************************************************)
NullId == <<>>          \* null where a restaurant id is expected
NullTime == -1          \* null where a timestamp is expected
InvalidDate == -2       \* a deadline string that Date cannot parse (NaN)
NoGroup == [status |-> "none"]
NoValue == [kind |-> "none"]


Max(a, b) == IF a >= b THEN a ELSE b
Min(a, b) == IF a <= b THEN a ELSE b

(***************************************************************************)
(* IEEE-754 double arithmetic of  Math.ceil(membersCount * 0.66).          *)
(* Numbers are bit sequences, least significant bit first.  The double     *)
(* nearest to 0.66 is Mant066 * 2^-53.                                     *)
(***************************************************************************)
MantBits == 53

\* 0.66 as a double: 5944751508129055 / 2^53, most significant bit first
Mant066Msb ==
    <<1,0,1,0,1,0,0,0,1,1,1,1,0,1,0,1,1,1,0,0,0,0,1,0,1,0,0,0,1,1,1,1,0,1,
      0,1,1,1,0,0,0,0,1,0,1,0,0,0,1,1,1,1,1>>

RECURSIVE Reverse(_)
Reverse(s) == IF s = <<>> THEN <<>> ELSE Reverse(Tail(s)) \o <<Head(s)>>

Mant066 == Reverse(Mant066Msb)

RECURSIVE NatToBits(_)
NatToBits(n) == IF n = 0 THEN <<>> ELSE <<n % 2>> \o NatToBits(n \div 2)

RECURSIVE BitsToNat(_)
BitsToNat(b) == IF b = <<>> THEN 0 ELSE Head(b) + 2 * BitsToNat(Tail(b))

RECURSIVE AddBits(_, _, _)
AddBits(a, b, c) ==
    IF a = <<>> /\ b = <<>>
    THEN IF c = 0 THEN <<>> ELSE <<1>>
    ELSE LET x == IF a = <<>> THEN 0 ELSE Head(a)
             y == IF b = <<>> THEN 0 ELSE Head(b)
             s == x + y + c
         IN  <<s % 2>> \o AddBits(IF a = <<>> THEN <<>> ELSE Tail(a),
                                  IF b = <<>> THEN <<>> ELSE Tail(b),
                                  s \div 2)

RECURSIVE MulBits(_, _)
MulBits(a, b) ==
    IF a = <<>> THEN <<>>
    ELSE AddBits(IF Head(a) = 1 THEN b ELSE <<>>,
                 <<0>> \o MulBits(Tail(a), b), 0)

RECURSIVE Normal(_)
\* drop the leading zero bits
Normal(b) ==
    IF b = <<>> THEN <<>>
    ELSE IF b[Len(b)] = 0 THEN Normal(SubSeq(b, 1, Len(b) - 1)) ELSE b

Zeros(k) == [i \in 1..k |-> 0]

\* round an exact product to MantBits significant bits, ties to even
RoundToDouble(p) ==
    LET b == Normal(p)
        k == Len(b) - MantBits
    IN  IF k <= 0 THEN b
        ELSE LET guard  == b[k]
                 sticky == \E i \in 1..(k - 1) : b[i] = 1
                 kept   == SubSeq(b, k + 1, Len(b))
                 up     == guard = 1 /\ (sticky \/ kept[1] = 1)
             IN  Zeros(k) \o (IF up THEN AddBits(kept, <<1>>, 0) ELSE kept)

\* membersCount * 0.66 as a double, scaled by 2^MantBits
Times066(m) == RoundToDouble(MulBits(NatToBits(m), Mant066))

IntPart(x) ==
    IF Len(x) <= MantBits THEN 0
    ELSE BitsToNat(SubSeq(x, MantBits + 1, Len(x)))

HasFraction(x) == \E i \in 1..Min(Len(x), MantBits) : x[i] = 1

\* the product is rounded down
MathFloor(x) == IntPart(x)

MathCeil(x) == IntPart(x) + (IF HasFraction(x) THEN 1 ELSE 0)

\* Math.max(1, Math.ceil(membersCount * 0.66))
ThresholdOf(membersCount) == Max(1, MathCeil(Times066(membersCount)))

\* the same values, computed once
ThresholdTable == [m \in 0..Max(MaxCount, MaxMembers) |-> ThresholdOf(m)]

Threshold(membersCount) ==
    IF membersCount \in DOMAIN ThresholdTable
    THEN ThresholdTable[membersCount]
    ELSE ThresholdOf(membersCount)

(***************************************************************************)
(* logic.js                                                                *)
(***************************************************************************)
\* const key = req.ip || "unknown"; a request without an ip has ip ""
LimiterKey(ip) == IF ip = "" THEN "unknown" ELSE ip

\* !bucket || now > bucket.resetAt, negated
WindowOpen(bucket, t) == bucket # NoValue /\ ~(t > bucket.resetAt)

\* every request is counted under the key "unknown"
createRateLimiterOneKey(limiter, table, ip, t) ==
    LET bucket == table["unknown"]
    IN  IF ~WindowOpen(bucket, t)
        THEN [admitted |-> TRUE,
              hits |-> [table EXCEPT !["unknown"] =
                           [count |-> 1, resetAt |-> t + limiter.windowMs]]]
        ELSE IF bucket.count >= limiter.max
        THEN [admitted |-> FALSE, hits |-> table]
        ELSE [admitted |-> TRUE,
              hits |-> [table EXCEPT !["unknown"] =
                           [count |-> bucket.count + 1, resetAt |-> bucket.resetAt]]]

\* the cap is compared with > instead of >=
createRateLimiterOneMore(limiter, table, ip, t) ==
    LET key == LimiterKey(ip)
        bucket == table[key]
    IN  IF ~WindowOpen(bucket, t)
        THEN [admitted |-> TRUE,
              hits |-> [table EXCEPT ![key] =
                           [count |-> 1, resetAt |-> t + limiter.windowMs]]]
        ELSE IF bucket.count > limiter.max
        THEN [admitted |-> FALSE, hits |-> table]
        ELSE [admitted |-> TRUE,
              hits |-> [table EXCEPT ![key] =
                           [count |-> bucket.count + 1, resetAt |-> bucket.resetAt]]]

\* the middleware returned by createRateLimiter({ windowMs, max, nowMs }):
\* whether it calls next(), and the Map it leaves
createRateLimiter(limiter, table, ip, t) ==
    LET key == LimiterKey(ip)
        bucket == table[key]
    IN  IF ~WindowOpen(bucket, t)
        THEN [admitted |-> TRUE,
              hits |-> [table EXCEPT ![key] =
                           [count |-> 1, resetAt |-> t + limiter.windowMs]]]
        ELSE IF bucket.count >= limiter.max
        THEN [admitted |-> FALSE, hits |-> table]
        ELSE [admitted |-> TRUE,
              hits |-> [table EXCEPT ![key] =
                           [count |-> bucket.count + 1, resetAt |-> bucket.resetAt]]]

ZeroCounts == [yes |-> 0, no |-> 0]

\* summary[restaurant.id] || { yes: 0, no: 0 }
Counts(summary, id) ==
    IF id \in DOMAIN summary THEN summary[id] ELSE ZeroCounts

\* the summary of the vote rows is returned as it is
summarizeVotesRaw(summary, list) == summary

summarizeVotes(summary, list) ==
    [id \in {list[i] : i \in 1..Len(list)} |-> Counts(summary, id)]

Candidate(summary, id) ==
    [restaurantId |-> id,
     yesCount |-> Counts(summary, id).yes,
     score |-> Counts(summary, id).yes - Counts(summary, id).no]

RECURSIVE CandidatesUnfiltered(_, _)
\* the filter on yesCount is left out
CandidatesUnfiltered(summary, list) ==
    IF list = <<>> THEN <<>>
    ELSE <<Candidate(summary, Head(list))>> \o CandidatesUnfiltered(summary, Tail(list))

RECURSIVE Candidates(_, _)
\* restaurants.map(...).filter((item) => item.yesCount > 0)
Candidates(summary, list) ==
    IF list = <<>> THEN <<>>
    ELSE LET c == Candidate(summary, Head(list))
         IN  (IF c.yesCount > 0 THEN <<c>> ELSE <<>>)
                 \o Candidates(summary, Tail(list))

\* the comparison stops at the score
CompareScoreOnly(a, b) == b.score - a.score

\* (a, b) => b.score - a.score || b.yesCount - a.yesCount
Compare(a, b) ==
    IF b.score - a.score # 0 THEN b.score - a.score
    ELSE b.yesCount - a.yesCount

RECURSIVE InsertSorted(_, _)
\* x goes behind every element that does not compare greater than it
InsertSorted(x, sorted) ==
    IF sorted = <<>> THEN <<x>>
    ELSE IF Compare(Head(sorted), x) > 0 THEN <<x>> \o sorted
    ELSE <<Head(sorted)>> \o InsertSorted(x, Tail(sorted))

RECURSIVE SortFrom(_, _)
SortFrom(list, sorted) ==
    IF list = <<>> THEN sorted
    ELSE SortFrom(Tail(list), InsertSorted(Head(list), sorted))

\* Array.prototype.sort is stable
StableSort(list) == SortFrom(list, <<>>)

computeWinner(summary, list) ==
    LET candidates == Candidates(summary, list)
    IN  IF candidates = <<>> THEN NullId
        ELSE StableSort(candidates)[1].restaurantId

\* group.deadline && new Date(group.deadline).getTime() <= nowMs()
DeadlineReached(group, t) ==
    group.deadline # InvalidDate /\ group.deadline <= t

RECURSIVE ConsensusScanLast(_, _, _, _)
\* the loop keeps the last restaurant that reaches the threshold
ConsensusScanLast(summary, list, threshold, found) ==
    IF list = <<>> THEN found
    ELSE ConsensusScanLast(summary, Tail(list), threshold,
             IF Counts(summary, Head(list)).yes >= threshold
             THEN Head(list) ELSE found)

RECURSIVE ConsensusScanBelow(_, _, _, _)
\* one yes vote less than the threshold is enough
ConsensusScanBelow(summary, list, threshold, found) ==
    IF list = <<>> THEN found
    ELSE ConsensusScanBelow(summary, Tail(list), threshold,
             IF Counts(summary, Head(list)).yes >= threshold - 1 /\ found = NullId
             THEN Head(list) ELSE found)

RECURSIVE ConsensusScan(_, _, _, _)
\* the forEach loop over the restaurants
ConsensusScan(summary, list, threshold, found) ==
    IF list = <<>> THEN found
    ELSE ConsensusScan(summary, Tail(list), threshold,
             IF Counts(summary, Head(list)).yes >= threshold /\ found = NullId
             THEN Head(list) ELSE found)

\* the consensus restaurant is preferred to the decided one
WinnerOfConsensusFirst(group, membersCount, summary, list, consensus, reached) ==
    LET w1 == IF consensus # NullId THEN consensus ELSE group.decidedRestaurantId
    IN  IF w1 = NullId /\ reached /\ membersCount > 0
        THEN computeWinner(summary, list)
        ELSE w1

\* the decided restaurant is not read: the winner is worked out again
WinnerOfRecomputed(group, membersCount, summary, list, consensus, reached) ==
    IF consensus = NullId /\ reached /\ membersCount > 0
    THEN computeWinner(summary, list)
    ELSE consensus

WinnerOf(group, membersCount, summary, list, consensus, reached) ==
    LET w0 == group.decidedRestaurantId
        w1 == IF w0 = NullId /\ consensus # NullId THEN consensus ELSE w0
    IN  IF w1 = NullId /\ reached /\ membersCount > 0
        THEN computeWinner(summary, list)
        ELSE w1

\* the member count is not looked at
VotingCompleteEmptyGroup(group, membersCount, consensus, reached) ==
    \/ group.status = "closed"
    \/ reached
    \/ consensus # NullId

\* the status of the group is not looked at
VotingCompleteOpenOnly(group, membersCount, consensus, reached) ==
    membersCount > 0 /\ (reached \/ consensus # NullId)

VotingComplete(group, membersCount, consensus, reached) ==
    \/ group.status = "closed"
    \/ (membersCount > 0 /\ (reached \/ consensus # NullId))

computeStatus(group, membersCount, summary, list, t) ==
    LET threshold == Threshold(membersCount)
        reached   == DeadlineReached(group, t)
        consensus == ConsensusScan(summary, list, threshold, NullId)
    IN  [threshold |-> threshold,
         deadlineReached |-> reached,
         consensusRestaurantId |-> consensus,
         winnerRestaurantId |->
             WinnerOf(group, membersCount, summary, list, consensus, reached),
         votingComplete |->
             VotingComplete(group, membersCount, consensus, reached)]

(***************************************************************************)
(* Contacts are character sequences.                                       *)
(***************************************************************************)
IsSpace(c) == c = " "
IsDigit(c) == c \in {"0", "1", "2", "3", "4", "5", "6", "7", "8", "9"}
ToLower(c) == IF c = "A" THEN "a" ELSE IF c = "B" THEN "b" ELSE c

RECURSIVE TrimStart(_)
TrimStart(s) ==
    IF s # <<>> /\ IsSpace(Head(s)) THEN TrimStart(Tail(s)) ELSE s

Trim(s) == Reverse(TrimStart(Reverse(TrimStart(s))))

RECURSIVE Digits(_)
\* replace(/[^0-9]/g, "")
Digits(s) ==
    IF s = <<>> THEN <<>>
    ELSE (IF IsDigit(Head(s)) THEN <<Head(s)>> ELSE <<>>) \o Digits(Tail(s))

RECURSIVE ToLowerCase(_)
ToLowerCase(s) ==
    IF s = <<>> THEN <<>> ELSE <<ToLower(Head(s))>> \o ToLowerCase(Tail(s))

\* the code is compared as it was written
ToUpperCaseNot(s) == s

ToUpperCase(s) ==
    [i \in 1..Len(s) |->
        IF s[i] = "a" THEN "A" ELSE IF s[i] = "b" THEN "B" ELSE s[i]]

normalizeContact(value, type) ==
    LET trimmed == Trim(value)
    IN  IF trimmed = <<>> THEN <<>>
        ELSE IF type = "phone" THEN Digits(trimmed)
        ELSE ToLowerCase(trimmed)

(***************************************************************************)
(* db.js: the tables and their statements                                  *)
(***************************************************************************)
toScopedId(groupId, restaurantId) == <<groupId, restaurantId>>

\* group codes are character sequences, stored in upper case
getGroupByCode(code) == groups[ToUpperCase(code)]

OpenGroup(deadline) ==
    [status |-> "open", decidedRestaurantId |-> NullId, decidedAt |-> NullTime,
     resultSentAt |-> NullTime, deadline |-> deadline]

\* decided_at is left out of the UPDATE
updateGroupDecisionUndated(group, decision) ==
    [group EXCEPT !.status = decision.status,
                  !.decidedRestaurantId = decision.decidedRestaurantId]

updateGroupDecision(group, decision) ==
    [group EXCEPT !.status = decision.status,
                  !.decidedRestaurantId = decision.decidedRestaurantId,
                  !.decidedAt = decision.decidedAt]

\* the stamp is not written
markResultSentNever(group, sentAt) == group

markResultSent(group, sentAt) == [group EXCEPT !.resultSentAt = sentAt]

listInvites(groupId) == {i \in invites : i.groupId = groupId}

\* .get() returns the first matching row in insertion order
findInvite(groupId, normalized, type) ==
    LET hit == {i \in invites : i.groupId = groupId
                                /\ i.normalized = normalized /\ i.type = type}
    IN  IF hit = {} THEN NoValue
        ELSE CHOOSE i \in hit : \A j \in hit : i.id <= j.id

updateInviteStatus(table, inviteId, status) ==
    {IF i.id = inviteId THEN [i EXCEPT !.status = status] ELSE i : i \in table}

markInviteJoined(table, inviteId) == updateInviteStatus(table, inviteId, "joined")

MemberIds == 1..Len(members)

listMembers(groupId) == {m \in MemberIds : members[m].groupId = groupId}

listRestaurants(groupId) == restaurants[groupId]

ListIds(list) == {list[i] : i \in 1..Len(list)}

HasDuplicates(list) == Cardinality(ListIds(list)) # Len(list)

\* a plain INSERT without the conflict clause and without the unique index
upsertVoteInsert(table, vote) == table \cup {vote}

upsertVote(table, vote) ==
    {v \in table : ~(v.groupId = vote.groupId
                     /\ v.restaurantId = vote.restaurantId
                     /\ v.memberId = vote.memberId)} \cup {vote}

\* the DELETE matches no row
deleteVoteNone(table, groupId, restaurantId, memberId) == table

deleteVote(table, groupId, restaurantId, memberId) ==
    {v \in table : ~(v.groupId = groupId /\ v.restaurantId = restaurantId
                     /\ v.memberId = memberId)}

CountVotes(table, groupId, rid, decision) ==
    Cardinality({v \in table : v.groupId = groupId /\ v.restaurantId = rid
                               /\ v.decision = decision})

\* one entry per restaurant id that has a vote row in the group
getVoteSummary(table, groupId) ==
    [rid \in {v.restaurantId : v \in {w \in table : w.groupId = groupId}} |->
        [yes |-> CountVotes(table, groupId, rid, "yes"),
         no  |-> CountVotes(table, groupId, rid, "no")]]

(***************************************************************************)
(* osm.js: the lookup pipeline.  A raw element is a record of its type and *)
(* id, its name and brand tags (a character sequence, empty when the tag   *)
(* is absent) and its place: the distance in miles that haversineMiles     *)
(* computes from its coordinates, or NoCoordinates.                        *)
(***************************************************************************)
GEO_TTL_MS == 21600000
RESTAURANT_TTL_MS == 600000
MaxResults == 12

NoCoordinates == -1

\* tags.name || tags.brand
ElementName(element) ==
    IF element.name # <<>> THEN element.name ELSE element.brand

ToRestaurant(element) ==
    [id |-> <<element.type, element.id>>,
     name |-> Trim(ElementName(element)),
     distanceMiles |-> element.at]

RECURSIVE Normalize(_, _)
\* elements.map(...).filter(Boolean), with the Set seen
Normalize(elements, seen) ==
    IF elements = <<>> THEN <<>>
    ELSE LET element == Head(elements)
             name == ElementName(element)
             normalizedName == ToLowerCase(Trim(name))
         IN  IF name = <<>> THEN Normalize(Tail(elements), seen)
             ELSE IF element.at = NoCoordinates THEN Normalize(Tail(elements), seen)
             ELSE IF normalizedName \in seen THEN Normalize(Tail(elements), seen)
             ELSE <<ToRestaurant(element)>>
                      \o Normalize(Tail(elements), seen \cup {normalizedName})

RECURSIVE InsertByDistance(_, _)
\* x goes behind every entry that is not farther than it
InsertByDistance(x, sorted) ==
    IF sorted = <<>> THEN <<x>>
    ELSE IF Head(sorted).distanceMiles - x.distanceMiles > 0 THEN <<x>> \o sorted
    ELSE <<Head(sorted)>> \o InsertByDistance(x, Tail(sorted))

RECURSIVE SortByDistanceFrom(_, _)
SortByDistanceFrom(list, sorted) ==
    IF list = <<>> THEN sorted
    ELSE SortByDistanceFrom(Tail(list), InsertByDistance(Head(list), sorted))

\* .sort((a, b) => a.distanceMiles - b.distanceMiles), a stable sort
SortByDistance(list) == SortByDistanceFrom(list, <<>>)

\* .slice(0, n)
Slice(list, n) == SubSeq(list, 1, Min(n, Len(list)))

\* the list is cut before it is sorted
ToRestaurantsSliceFirst(elements) ==
    SortByDistance(Slice(Normalize(elements, {}), MaxResults))

ToRestaurants(elements) ==
    Slice(SortByDistance(Normalize(elements, {})), MaxResults)

\* what fetchRestaurants makes of the elements a backend answered
Restaurants(elements) ==
    LET list == ToRestaurants(elements)
    IN  IF list = <<>> THEN [kind |-> "NoResults", list |-> <<>>]
        ELSE [kind |-> "ok", list |-> list]

(***************************************************************************)
(* Request inputs                                                          *)
(***************************************************************************)
Entries(types, contacts) == [type : types, value : contacts]

\* the batches of at most one entry
Batches1(entries) == {<<>>} \cup {<<e>> : e \in entries}

\* the batches of at most MaxBatch entries
Batches(entries) == UNION {[1..n -> entries] : n \in 0..MaxBatch}

LookupOutcomes(lists) ==
    {[kind |-> "ok", list |-> l] : l \in lists}
        \cup {[kind |-> k, list |-> <<>>] : k \in {"NoResults", "Timeout", "Error"}}

\* Spec: one group; contact "a" can join only as the first member, contact
\* "b" is the one the host invites; every invite notification is delivered
MainEnv ==
    [groupIds |-> {<<"A">>},
     codes |-> {<<"A">>},
     deadlines |-> {2},
     types |-> {"email"},
     contacts |-> {<<" ">>, <<"a">>, <<"b">>},
     batches |-> Batches1(Entries({"email"}, {<<" ">>, <<"b">>})),
     notifying |-> MaxNotifying,
     lookups |-> MaxLookups,
     limiter |-> NoValue,
     ips |-> {""},
     inviteOutcomes |-> {"sent"},
     sendOutcomes |-> {"fulfilled", "rejected"},
     lookupOutcomes |-> LookupOutcomes({<<"r1">>, <<"r1", "r2">>, <<"r1", "r1">>}),
     lateOutcomes |-> {},
     voteIds |-> {"r1", "r2"},
     decisions |-> {"yes", "no", "null", "maybe"}]

\* SpecInvites: the host submits batches of several entries, which may
\* name one contact twice, in the same or in another spelling
InviteEnv ==
    [groupIds |-> {<<"A">>},
     codes |-> {<<"A">>},
     deadlines |-> {2},
     types |-> {"email"},
     contacts |-> {<<"B">>},
     batches |-> Batches(Entries({"email"}, {<<"b">>, <<"B">>, <<" ">>})),
     notifying |-> MaxBatch,
     lookups |-> MaxLookups,
     limiter |-> NoValue,
     ips |-> {""},
     inviteOutcomes |-> {"sent", "skipped", "threw"},
     sendOutcomes |-> {"fulfilled"},
     lookupOutcomes |-> LookupOutcomes({<<"r1">>}),
     lateOutcomes |-> {},
     voteIds |-> {"r1"},
     decisions |-> {"yes", "null"}]

\* SpecLimiter: the lookup route is throttled by createRateLimiter; requests
\* come from a client with an address and from clients without one, and name
\* the group's code in both cases of its letter, or a code no group has
LimiterEnv(limiter) ==
    [groupIds |-> {<<"A">>},
     codes |-> {<<"a">>, <<"A">>, <<"b">>},
     deadlines |-> {2},
     types |-> {"email"},
     contacts |-> {<<"a">>},
     batches |-> Batches1(Entries({"email"}, {<<"b">>})),
     notifying |-> MaxNotifying,
     lookups |-> MaxLookups,
     limiter |-> limiter,
     ips |-> {"", "10.0.0.1"},
     inviteOutcomes |-> {"sent"},
     sendOutcomes |-> {"fulfilled"},
     lookupOutcomes |-> LookupOutcomes({<<"r1">>, <<"r1", "r1">>}),
     lateOutcomes |-> {[kind |-> k, list |-> <<"r1">>] : k \in {"ok", "Error"}},
     voteIds |-> {"r1"},
     decisions |-> {"yes"}]

\* SpecGroups: two groups side by side; contact "a" joins either as its
\* first member, contact "b" can be invited to either, and both look up the
\* same restaurant
GroupsEnv ==
    [groupIds |-> {<<"A">>, <<"B">>},
     codes |-> {<<"A">>, <<"B">>},
     deadlines |-> {2},
     types |-> {"email"},
     contacts |-> {<<"a">>},
     batches |-> Batches1(Entries({"email"}, {<<"b">>})),
     notifying |-> MaxNotifying,
     lookups |-> MaxLookups,
     limiter |-> NoValue,
     ips |-> {""},
     inviteOutcomes |-> {"sent"},
     sendOutcomes |-> {"fulfilled"},
     lookupOutcomes |-> LookupOutcomes({<<"r1">>}),
     lateOutcomes |-> {},
     voteIds |-> {"r1"},
     decisions |-> {"yes", "no"}]

\* SpecRefresh: as many lookups of the one group run side by side as
\* handlers may be suspended, and they settle with different lists; a no
\* vote leaves the group open before its deadline
RefreshEnv ==
    [groupIds |-> {<<"A">>},
     codes |-> {<<"A">>},
     deadlines |-> {2},
     types |-> {"email"},
     contacts |-> {<<"a">>},
     batches |-> Batches1(Entries({"email"}, {<<"b">>})),
     notifying |-> MaxNotifying,
     lookups |-> MaxInflight,
     limiter |-> NoValue,
     ips |-> {""},
     inviteOutcomes |-> {"sent"},
     sendOutcomes |-> {"fulfilled"},
     lookupOutcomes |->
         LookupOutcomes({<<"r1">>, <<"r2">>, <<"r1", "r2">>, <<"r2", "r2">>}),
     lateOutcomes |-> {},
     voteIds |-> {"r1", "r2"},
     decisions |-> {"yes", "no"}]

Response(code, status) == [code |-> code, status |-> status]

InflightRecords == BagToSet(inflight)
InflightCount == BagCardinality(inflight)
InflightOf(kind) ==
    BagCardinality([r \in {x \in InflightRecords : x.kind = kind} |-> inflight[r]])

Suspend(rec) == inflight (+) SetToBag({rec})
Resume(rec) == inflight (-) SetToBag({rec})

StatusOf(g) ==
    LET list == listRestaurants(g)
    IN  computeStatus(getGroupByCode(g), Cardinality(listMembers(g)),
                      summarizeVotes(getVoteSummary(votes, g), list), list, now)

(***************************************************************************)
(* Handlers of createApp                                                   *)
(***************************************************************************)
\* POST /api/groups
CreateGroupResponse(fieldsPresent) ==
    IF fieldsPresent THEN Response(200, NoValue) ELSE Response(400, NoValue)

CreateGroup(g, fieldsPresent, deadline) ==
    /\ groups[g] = NoGroup
    /\ groups' = IF fieldsPresent
                 THEN [groups EXCEPT ![g] = OpenGroup(deadline)]
                 ELSE groups
    /\ UNCHANGED <<now, invites, members, restaurants, votes, inflight,
                   nextId, sends, env, hits, osmVars, arg, ret>>

\* GET /api/groups/:code/state
GetStateResponse(g) ==
    IF getGroupByCode(g) = NoGroup THEN Response(404, NoValue)
    ELSE Response(200, StatusOf(g))

GetState(g) ==
    /\ GetStateResponse(g).code \in {200, 404}
    /\ UNCHANGED vars

RECURSIVE NewInvitesUnchecked(_, _, _, _)
\* the stored invites are not looked at
NewInvitesUnchecked(g, batch, existingSet, id) ==
    IF batch = <<>> THEN <<>>
    ELSE LET type == Head(batch).type
             value == Trim(Head(batch).value)
             normalized == normalizeContact(value, type)
         IN  IF value = <<>> \/ normalized = <<>>
             THEN NewInvitesUnchecked(g, Tail(batch), existingSet, id)
             ELSE <<[id |-> id + 1, groupId |-> g, type |-> type, value |-> value,
                     normalized |-> normalized, status |-> "pending"]>>
                    \o NewInvitesUnchecked(g, Tail(batch), existingSet, id + 1)

RECURSIVE NewInvites(_, _, _, _)
\* the map/filter over the submitted entries; ids come from createId()
NewInvites(g, batch, existingSet, id) ==
    IF batch = <<>> THEN <<>>
    ELSE LET type == Head(batch).type
             value == Trim(Head(batch).value)
             normalized == normalizeContact(value, type)
         IN  IF value = <<>> \/ normalized = <<>> \/ <<type, normalized>> \in existingSet
             THEN NewInvites(g, Tail(batch), existingSet, id)
             ELSE <<[id |-> id + 1, groupId |-> g, type |-> type, value |-> value,
                     normalized |-> normalized, status |-> "pending"]>>
                    \o NewInvites(g, Tail(batch), existingSet, id + 1)

SubmittedInvites(g, batch) ==
    NewInvites(g, batch, {<<i.type, i.normalized>> : i \in listInvites(g)}, nextId)

\* the answer that does not wait for the notifications
InviteSubmitResponse(g, batch) ==
    IF getGroupByCode(g) = NoGroup THEN Response(404, NoValue)
    ELSE IF batch = <<>> \/ SubmittedInvites(g, batch) = <<>>
    THEN Response(400, NoValue)
    ELSE Response(0, NoValue)

\* GET /api/groups/:code, /api/groups/:code/members and
\* /api/groups/:code/restaurants
ReadRoutes == {"group", "members", "restaurants"}

ReadResponse(g, route) ==
    IF getGroupByCode(g) = NoGroup THEN Response(404, NoValue)
    ELSE Response(200, CASE route = "group" -> getGroupByCode(g)
                         [] route = "members" -> listMembers(g)
                         [] route = "restaurants" -> listRestaurants(g))

Read(g, route) ==
    /\ ReadResponse(g, route).code \in {200, 404}
    /\ UNCHANGED vars

\* POST /api/groups/:code/invites, up to the await on the notifications
InviteSubmit(g, batch) ==
    LET newInvites == SubmittedInvites(g, batch)
        n == Len(newInvites)
    IN  /\ UNCHANGED <<now, groups, members, restaurants, votes, sends, env, hits, osmVars, arg, ret>>
        /\ IF InviteSubmitResponse(g, batch).code # 0
           THEN UNCHANGED <<invites, inflight, nextId>>
           ELSE /\ nextId + n <= MaxInvites
                /\ InflightCount + n <= MaxInflight
                /\ InflightOf("invite") + n <= env.notifying
                /\ invites' = invites \cup ListIds(newInvites)
                /\ nextId' = nextId + n
                /\ inflight' = inflight (+) SetToBag(
                       {[kind |-> "invite", id |-> newInvites[k].id,
                         req |-> newInvites[1].id, group |-> g] : k \in 1..n})

\* the handler answers once every notification of its batch has settled
InviteNotifiedResponse(rec) ==
    IF \E r \in BagToSet(Resume(rec)) : r.kind = "invite" /\ r.req = rec.req
    THEN Response(0, NoValue)
    ELSE Response(200, NoValue)

\* a send that throws leaves the row as it is
InviteStatusUncaught(outcome) ==
    IF outcome = "threw" THEN "pending"
    ELSE IF outcome = "skipped" THEN "skipped"
    ELSE "sent"

\* the status written for the outcome of sendInviteNotification
InviteStatusFor(outcome) ==
    IF outcome = "threw" THEN "failed"
    ELSE IF outcome = "skipped" THEN "skipped"
    ELSE "sent"

\* one sendInviteNotification settles and its invite row is updated
InviteNotified(rec, outcome) ==
    /\ rec \in InflightRecords
    /\ rec.kind = "invite"
    /\ invites' = updateInviteStatus(invites, rec.id, InviteStatusFor(outcome))
    /\ inflight' = Resume(rec)
    /\ UNCHANGED <<now, groups, members, restaurants, votes, nextId, sends,
                   env, hits, osmVars, arg, ret>>

\* the status of the row is not looked at
deleteInviteJoined(g, inviteId) ==
    {i \in invites : i.id = inviteId /\ i.groupId = g}

\* the row is looked up by its id alone
deleteInviteAnyGroup(g, inviteId) ==
    {i \in invites : i.id = inviteId /\ i.status # "joined"}

\* db.deleteInvite: the row that may be removed, or none
deleteInvite(g, inviteId) ==
    {i \in invites : i.id = inviteId /\ i.groupId = g /\ i.status # "joined"}

DeleteInviteResponse(g, inviteId) ==
    IF getGroupByCode(g) = NoGroup THEN Response(404, NoValue)
    ELSE IF deleteInvite(g, inviteId) = {} THEN Response(400, NoValue)
    ELSE Response(200, NoValue)

\* DELETE /api/groups/:code/invites/:inviteId
DeleteInvite(g, inviteId) ==
    /\ invites' = IF DeleteInviteResponse(g, inviteId).code = 200
                  THEN invites \ deleteInvite(g, inviteId)
                  ELSE invites
    /\ UNCHANGED <<now, groups, members, restaurants, votes, inflight,
                   nextId, sends, env, hits, osmVars, arg, ret>>

\* an invite is created for any contact without one, first member or not
JoinInviteAnyone(g, type, contact) ==
    LET trimmedContact == Trim(contact)
        normalized == normalizeContact(trimmedContact, type)
        found == findInvite(g, normalized, type)
    IN  IF found = NoValue
        THEN [id |-> nextId + 1, groupId |-> g, type |-> type,
              value |-> trimmedContact, normalized |-> normalized,
              status |-> "pending"]
        ELSE found

\* the invite a join is matched against: the stored one, or the one the
\* first member creates for itself
JoinInvite(g, type, contact) ==
    LET trimmedContact == Trim(contact)
        normalized == normalizeContact(trimmedContact, type)
        found == findInvite(g, normalized, type)
    IN  IF found = NoValue /\ listMembers(g) = {}
        THEN [id |-> nextId + 1, groupId |-> g, type |-> type,
              value |-> trimmedContact, normalized |-> normalized,
              status |-> "pending"]
        ELSE found

JoinResponse(g, namePresent, type, contact) ==
    IF getGroupByCode(g) = NoGroup THEN Response(404, NoValue)
    ELSE IF ~namePresent \/ normalizeContact(Trim(contact), type) = <<>>
    THEN Response(400, NoValue)
    ELSE IF JoinInvite(g, type, contact) = NoValue THEN Response(403, NoValue)
    ELSE IF JoinInvite(g, type, contact).status = "joined"
    THEN Response(403, NoValue)
    ELSE Response(200, NoValue)

\* POST /api/groups/:code/join
Join(g, namePresent, type, contact) ==
    LET invite == JoinInvite(g, type, contact)
        selfCreate == invite \notin invites
    IN  /\ UNCHANGED <<now, groups, restaurants, votes, inflight, sends, env, hits, osmVars, arg, ret>>
        /\ IF JoinResponse(g, namePresent, type, contact).code # 200
           THEN UNCHANGED <<invites, members, nextId>>
           ELSE /\ Len(members) < MaxMembers
                /\ selfCreate => nextId < MaxInvites
                /\ nextId' = IF selfCreate THEN nextId + 1 ELSE nextId
                /\ members' = Append(members,
                       [groupId |-> g, type |-> type, contact |-> invite.value])
                /\ invites' = markInviteJoined(invites \cup {invite}, invite.id)

\* options.restaurantLimiter: the limiter the application was created with;
\* env.limiter is NoValue for one that admits every request
restaurantLimiter(ip) ==
    IF env.limiter = NoValue THEN [admitted |-> TRUE, hits |-> hits]
    ELSE createRateLimiter(env.limiter, hits, ip, now)

LookupStartResponse(g, ip) ==
    IF ~restaurantLimiter(ip).admitted THEN Response(429, NoValue)
    ELSE IF getGroupByCode(g) = NoGroup THEN Response(404, NoValue)
    ELSE Response(0, NoValue)

\* POST /api/groups/:code/restaurants, up to the await on Promise.race
LookupStart(g, ip) ==
    /\ UNCHANGED <<now, groups, invites, members, restaurants, votes, nextId,
                   sends, env, osmVars, arg, ret>>
    /\ hits' = restaurantLimiter(ip).hits
    /\ IF LookupStartResponse(g, ip).code # 0
       THEN inflight' = inflight
       ELSE /\ InflightCount < MaxInflight
            /\ InflightOf("lookup") < env.lookups
            /\ inflight' = Suspend([kind |-> "lookup", group |-> g])

RECURSIVE ScopedList(_, _)
ScopedList(g, list) ==
    IF list = <<>> THEN <<>>
    ELSE <<toScopedId(g, Head(list))>> \o ScopedList(g, Tail(list))

\* the votes of the group are not deleted
storeRestaurantsKeepVotes(g, list) ==
    /\ votes' = votes
    /\ restaurants' = [restaurants EXCEPT ![g] = ScopedList(g, list)]

\* the new rows are inserted next to the rows of the list before
storeRestaurantsAppend(g, list) ==
    /\ votes' = {v \in votes : v.groupId # g}
    /\ restaurants' = [restaurants EXCEPT ![g] = @ \o ScopedList(g, list)]

\* db.storeRestaurants: one transaction
storeRestaurants(g, list) ==
    /\ votes' = {v \in votes : v.groupId # g}
    /\ restaurants' = [restaurants EXCEPT ![g] = ScopedList(g, list)]

\* a timeout is answered like any other failure
LookupDoneResponseNoTimeout(outcome) ==
    IF outcome.kind = "ok" /\ ~HasDuplicates(outcome.list)
    THEN Response(200, [kind |-> "success"])
    ELSE IF outcome.kind = "NoResults" THEN Response(200, [kind |-> "empty"])
    ELSE Response(502, NoValue)

LookupDoneResponse(outcome) ==
    IF outcome.kind = "ok" /\ ~HasDuplicates(outcome.list)
    THEN Response(200, [kind |-> "success"])
    ELSE IF outcome.kind = "NoResults" THEN Response(200, [kind |-> "empty"])
    ELSE IF outcome.kind = "Timeout" THEN Response(504, NoValue)
    ELSE Response(502, NoValue)

\* the race settles: fetchRestaurants answered, threw, or the timer fired.
\* When the timer fired the call of fetchRestaurants is still pending;
\* env.lateOutcomes is what it settles with, and is empty in the
\* specifications that do not follow it
LookupDone(rec, outcome) ==
    /\ rec \in InflightRecords
    /\ rec.kind = "lookup"
    /\ inflight' = IF outcome.kind = "Timeout" /\ env.lateOutcomes # {}
                   THEN Resume(rec) (+) SetToBag({[rec EXCEPT !.kind = "late"]})
                   ELSE Resume(rec)
    /\ UNCHANGED <<now, groups, invites, members, nextId, sends, env, hits, osmVars, arg, ret>>
    /\ IF LookupDoneResponse(outcome).code = 200
       THEN storeRestaurants(rec.group, outcome.list)
       ELSE UNCHANGED <<votes, restaurants>>

\* the result of the late call is stored
LookupLateStores(rec, outcome) ==
    /\ rec \in InflightRecords
    /\ rec.kind = "late"
    /\ inflight' = Resume(rec)
    /\ UNCHANGED <<now, groups, invites, members, nextId, sends, env, hits,
                   osmVars, arg, ret>>
    /\ IF outcome.kind = "ok"
       THEN storeRestaurants(rec.group, outcome.list)
       ELSE UNCHANGED <<votes, restaurants>>

\* the call of fetchRestaurants that lost the race settles: no handler waits
\* for it
LookupLate(rec, outcome) ==
    /\ rec \in InflightRecords
    /\ rec.kind = "late"
    /\ inflight' = Resume(rec)
    /\ UNCHANGED <<now, groups, invites, members, restaurants, votes, nextId,
                   sends, env, hits, osmVars, arg, ret>>

\* notifyMembers: one sendResultNotification call per member
notifyMembers(mem) ==
    [m \in DOMAIN sends |-> IF m \in mem THEN sends[m] + 1 ELSE sends[m]]

\* the decision is written whatever the status is
NeedsDecisionAlways(group) == TRUE

\* if (group.status !== "closed")
NeedsDecision(group) == group.status # "closed"

\* the dispatch does not look at the stamp
ShouldDispatchAgain(status, updatedGroup) == status.winnerRestaurantId # NullId

\* if (status.winnerRestaurantId && !updatedGroup.resultSentAt)
ShouldDispatch(status, updatedGroup) ==
    status.winnerRestaurantId # NullId /\ updatedGroup.resultSentAt = NullTime

\* finalizeGroupIfNeeded, up to its await: the group row it leaves, the
\* members it notifies, whether it waits for the sends, and what it returns
finalizeGroupIfNeeded(group, mem, list, summary, status) ==
    IF ~status.votingComplete
    THEN [group |-> group, notified |-> {}, awaiting |-> FALSE, status |-> status]
    ELSE LET updatedGroup ==
                 IF NeedsDecision(group)
                 THEN updateGroupDecision(group,
                          [status |-> "closed",
                           decidedRestaurantId |-> status.winnerRestaurantId,
                           decidedAt |-> now])
                 ELSE group
         IN  IF ShouldDispatch(status, updatedGroup)
             THEN IF status.winnerRestaurantId \in ListIds(list)
                  THEN [group |-> updatedGroup, notified |-> mem,
                        awaiting |-> TRUE, status |-> NoValue]
                  ELSE [group |-> markResultSent(updatedGroup, now),
                        notified |-> {}, awaiting |-> FALSE,
                        status |-> computeStatus(markResultSent(updatedGroup, now),
                                       Cardinality(mem), summary, list, now)]
             ELSE [group |-> updatedGroup, notified |-> {}, awaiting |-> FALSE,
                   status |-> computeStatus(updatedGroup, Cardinality(mem),
                                            summary, list, now)]

\* the effect of a finalization on the state
Finalized(g, fin, mem, list, summary) ==
    /\ groups' = [groups EXCEPT ![g] = fin.group]
    /\ sends' = notifyMembers(fin.notified)
    /\ IF fin.awaiting
       THEN /\ InflightCount < MaxInflight
            /\ inflight' = Suspend([kind |-> "finalize", group |-> g,
                                    membersCount |-> Cardinality(mem),
                                    summary |-> summary, list |-> list])
       ELSE inflight' = inflight

FinalizeResumeResponse(rec) ==
    Response(200, computeStatus(markResultSent(groups[rec.group], now),
                                rec.membersCount, rec.summary, rec.list, now))

\* finalizeGroupIfNeeded after the await: the stamp and the answer; the
\* outcomes of the sends are settled by Promise.allSettled and not read
FinalizeResume(rec, outcome) ==
    /\ rec \in InflightRecords
    /\ rec.kind = "finalize"
    /\ outcome \in env.sendOutcomes
    /\ inflight' = Resume(rec)
    /\ groups' = [groups EXCEPT
                    ![rec.group] = markResultSent(groups[rec.group], now)]
    /\ UNCHANGED <<now, invites, members, restaurants, votes, nextId, sends,
                   env, hits, osmVars, arg, ret>>

\* the vote table after the request's statement
VotesAfter(g, memberId, restaurantId, decision) ==
    IF decision = "null"
    THEN deleteVote(votes, g, restaurantId, memberId)
    ELSE upsertVote(votes, [groupId |-> g, restaurantId |-> restaurantId,
                            memberId |-> memberId, decision |-> decision])

VoteFinalization(g, memberId, restaurantId, decision) ==
    LET list == listRestaurants(g)
        mem == listMembers(g)
        summary == summarizeVotes(
            getVoteSummary(VotesAfter(g, memberId, restaurantId, decision), g), list)
    IN  finalizeGroupIfNeeded(getGroupByCode(g), mem, list, summary,
            computeStatus(getGroupByCode(g), Cardinality(mem), summary, list, now))

\* code 0: the vote is recorded and the handler finalizes
VoteResponse(g, memberId, restaurantId, decision) ==
    IF getGroupByCode(g) = NoGroup THEN Response(404, NoValue)
    ELSE IF memberId \notin listMembers(g) THEN Response(400, NoValue)
    ELSE IF restaurantId \notin ListIds(listRestaurants(g))
    THEN Response(400, NoValue)
    ELSE IF getGroupByCode(g).status = "closed" THEN Response(200, StatusOf(g))
    ELSE IF decision \notin {"yes", "no", "null"} THEN Response(400, NoValue)
    ELSE IF VoteFinalization(g, memberId, restaurantId, decision).awaiting
    THEN Response(0, NoValue)
    ELSE Response(200,
             VoteFinalization(g, memberId, restaurantId, decision).status)

\* the summary the answer carries: the stored one on a closed group, else
\* the one read after the statement
VoteResponseSummary(g, memberId, restaurantId, decision) ==
    IF getGroupByCode(g).status = "closed"
    THEN summarizeVotes(getVoteSummary(votes, g), listRestaurants(g))
    ELSE summarizeVotes(
             getVoteSummary(VotesAfter(g, memberId, restaurantId, decision), g),
             listRestaurants(g))

\* the closed-group branch is left out
RecordedWhenClosed(g, memberId, restaurantId, decision) ==
    /\ getGroupByCode(g) # NoGroup
    /\ memberId \in listMembers(g)
    /\ restaurantId \in ListIds(listRestaurants(g))
    /\ decision \in {"yes", "no", "null"}

\* the group of the member is not compared with the group of the request
RecordedAnyMember(g, memberId, restaurantId, decision) ==
    /\ getGroupByCode(g) # NoGroup
    /\ memberId \in MemberIds
    /\ restaurantId \in ListIds(listRestaurants(g))
    /\ getGroupByCode(g).status # "closed"
    /\ decision \in {"yes", "no", "null"}

Recorded(g, memberId, restaurantId, decision) ==
    /\ getGroupByCode(g) # NoGroup
    /\ memberId \in listMembers(g)
    /\ restaurantId \in ListIds(listRestaurants(g))
    /\ getGroupByCode(g).status # "closed"
    /\ decision \in {"yes", "no", "null"}

\* POST /api/groups/:code/votes
Vote(g, memberId, restaurantId, decision) ==
    /\ UNCHANGED <<now, invites, members, restaurants, nextId, env, hits, osmVars, arg, ret>>
    /\ IF Recorded(g, memberId, restaurantId, decision)
       THEN /\ votes' = VotesAfter(g, memberId, restaurantId, decision)
            /\ Finalized(g, VoteFinalization(g, memberId, restaurantId, decision),
                   listMembers(g), listRestaurants(g),
                   summarizeVotes(getVoteSummary(votes', g), listRestaurants(g)))
       ELSE UNCHANGED <<groups, votes, inflight, sends>>

CloseFinalization(g) ==
    LET list == listRestaurants(g)
        mem == listMembers(g)
        summary == summarizeVotes(getVoteSummary(votes, g), list)
    IN  finalizeGroupIfNeeded(getGroupByCode(g), mem, list, summary,
            computeStatus(getGroupByCode(g), Cardinality(mem), summary, list, now))

CloseResponse(g) ==
    IF getGroupByCode(g) = NoGroup THEN Response(404, NoValue)
    ELSE IF CloseFinalization(g).awaiting THEN Response(0, NoValue)
    ELSE Response(200, CloseFinalization(g).status)

\* POST /api/groups/:code/close
Close(g) ==
    /\ UNCHANGED <<now, invites, members, restaurants, votes, nextId, env, hits, osmVars, arg, ret>>
    /\ IF getGroupByCode(g) = NoGroup
       THEN UNCHANGED <<groups, inflight, sends>>
       ELSE Finalized(g, CloseFinalization(g), listMembers(g), listRestaurants(g),
                summarizeVotes(getVoteSummary(votes, g), listRestaurants(g)))

\* time passes
Tick ==
    /\ now < MaxTime
    /\ now' = now + 1
    /\ UNCHANGED <<groups, invites, members, restaurants, votes, inflight,
                   nextId, sends, env, hits, osmVars, arg, ret>>

(***************************************************************************)
(* Spec: the HTTP state machine                                            *)
(***************************************************************************)
\* fetchRestaurants is not called
NoFetch ==
    /\ geocodeCache = <<>>
    /\ restaurantCache = <<>>
    /\ call = NoValue

InitOn(e) ==
    /\ env = e
    /\ now = 1
    /\ groups = [g \in {ToUpperCase(c) : c \in e.groupIds \cup e.codes} |-> NoGroup]
    /\ invites = {}
    /\ members = <<>>
    /\ restaurants =
           [g \in {ToUpperCase(c) : c \in e.groupIds \cup e.codes} |-> <<>>]
    /\ votes = {}
    /\ inflight = EmptyBag
    /\ nextId = 0
    /\ sends = [m \in 1..MaxMembers |-> 0]
    /\ hits = [k \in {LimiterKey(ip) : ip \in e.ips} |-> NoValue]
    /\ NoFetch
    /\ arg = NoValue
    /\ ret = NoValue

Init == InitOn(MainEnv)

GroupIds == DOMAIN groups

\* a request names its group by a code, which db.getGroupByCode turns to upper
\* case; createCode() hands out env.groupIds, which db.createGroup stores in
\* upper case
Next ==
    \/ \E code \in env.groupIds, ok \in BOOLEAN, d \in env.deadlines :
           CreateGroup(ToUpperCase(code), ok, d)
    \/ \E code \in env.codes : GetState(ToUpperCase(code))
    \/ \E code \in env.codes, route \in ReadRoutes : Read(ToUpperCase(code), route)
    \/ \E code \in env.codes, batch \in env.batches :
           InviteSubmit(ToUpperCase(code), batch)
    \/ \E rec \in InflightRecords, o \in env.inviteOutcomes :
           InviteNotified(rec, o)
    \/ \E code \in env.codes, id \in 1..MaxInvites :
           DeleteInvite(ToUpperCase(code), id)
    \/ \E code \in env.codes, ok \in BOOLEAN, t \in env.types, c \in env.contacts :
           Join(ToUpperCase(code), ok, t, c)
    \/ \E code \in env.codes, ip \in env.ips : LookupStart(ToUpperCase(code), ip)
    \/ \E rec \in InflightRecords, o \in env.lookupOutcomes : LookupDone(rec, o)
    \/ \E code \in env.codes, m \in 0..MaxMembers, h \in GroupIds,
          r \in env.voteIds, d \in env.decisions :
           Vote(ToUpperCase(code), m, toScopedId(h, r), d)
    \/ \E code \in env.codes : Close(ToUpperCase(code))
    \/ \E rec \in InflightRecords, o \in env.sendOutcomes : FinalizeResume(rec, o)
    \/ Tick

Spec == Init /\ [][Next]_vars

InitInvites == InitOn(InviteEnv)

SpecInvites == InitInvites /\ [][Next]_vars

InitGroups == InitOn(GroupsEnv)

SpecGroups == InitGroups /\ [][Next]_vars

InitRefresh == InitOn(RefreshEnv)

SpecRefresh == InitRefresh /\ [][Next]_vars

\* createRateLimiter({ windowMs, max, nowMs }) with a drawn window and cap
InitLimiter ==
    \E w \in 0..MaxWindowMs, m \in 1..MaxLimit :
        InitOn(LimiterEnv([windowMs |-> w, max |-> m]))

NextLimiter ==
    \/ Next
    \/ \E rec \in InflightRecords, o \in env.lateOutcomes : LookupLate(rec, o)

SpecLimiter == InitLimiter /\ [][NextLimiter]_vars

(***************************************************************************)
(* SpecLogic, SpecWinner, SpecThreshold: logic.js on drawn inputs          *)
(***************************************************************************)
LogicIds == {<<"g1", "r1">>, <<"g1", "r2">>}
WinnerIds == LogicIds \cup {<<"g1", "r3">>}

CountValues == [yes : 0..MaxYes, no : 0..MaxNo]

\* the summaries over some of the ids; an id without a row has no entry
Summaries(ids) == UNION {[present -> CountValues] : present \in SUBSET ids}

\* the lists of distinct ids
Lists(ids) ==
    UNION {{l \in [1..n -> ids] : \A i, j \in 1..n : l[i] = l[j] => i = j} :
               n \in 0..Cardinality(ids)}

LogicGroups ==
    [status : {"open", "closed"},
     decidedRestaurantId : {NullId, <<"g1", "r1">>},
     decidedAt : {NullTime},
     resultSentAt : {NullTime},
     deadline : {InvalidDate, 1, 2}]

\* no request is served in these specifications
NoApp ==
    /\ env = NoValue
    /\ now = 1
    /\ groups = <<>>
    /\ invites = {}
    /\ members = <<>>
    /\ restaurants = <<>>
    /\ votes = {}
    /\ inflight = EmptyBag
    /\ nextId = 0
    /\ sends = <<>>
    /\ hits = <<>>

NoServer == NoApp /\ NoFetch

serverVars == <<env, now, groups, invites, members, restaurants, votes,
                inflight, nextId, sends, hits, osmVars>>

StatusInput(group, membersCount, summary, list) ==
    [group |-> group, membersCount |-> membersCount, summary |-> summary,
     list |-> list, now |-> 1]

InitLogic ==
    /\ NoServer
    /\ arg \in {StatusInput(g, m, s, l) :
                    g \in LogicGroups, m \in 0..MaxLogicMembers,
                    s \in Summaries(LogicIds), l \in Lists(LogicIds)}
    /\ ret = NoValue

InitWinner ==
    /\ NoServer
    /\ arg \in {StatusInput(OpenGroup(2), 0, s, l) :
                    s \in Summaries(WinnerIds), l \in Lists(WinnerIds)}
    /\ ret = NoValue

InitThreshold ==
    /\ NoServer
    /\ arg \in {StatusInput(OpenGroup(2), m, <<>>, <<>>) : m \in 0..MaxCount}
    /\ ret = NoValue

ApplyComputeStatus ==
    /\ ret' = [kind |-> "status",
               value |-> computeStatus(arg.group, arg.membersCount, arg.summary,
                                       arg.list, arg.now)]
    /\ UNCHANGED <<serverVars, arg>>

ApplyComputeWinner ==
    /\ ret' = [kind |-> "winner", value |-> computeWinner(arg.summary, arg.list)]
    /\ UNCHANGED <<serverVars, arg>>

SpecLogic == InitLogic /\ [][ApplyComputeStatus]_vars
SpecWinner == InitWinner /\ [][ApplyComputeWinner]_vars
SpecThreshold == InitThreshold /\ [][ApplyComputeStatus]_vars

(***************************************************************************)
(* SpecPipeline: the lookup pipeline of osm.js on drawn raw elements       *)
(***************************************************************************)
Element(type, id, name, brand, at) ==
    [type |-> type, id |-> id, name |-> name, brand |-> brand, at |-> at]

\* elements with and without a name, a brand and coordinates; three of them
\* have the name "a" in some spelling
RawElements ==
    {Element("node", 1, <<"a">>, <<>>, 2),
     Element("way", 2, <<" ", "A">>, <<"b">>, 1),
     Element("node", 3, <<>>, <<"b">>, 1),
     Element("node", 4, <<"a">>, <<>>, NoCoordinates),
     Element("node", 5, <<>>, <<>>, 0),
     Element("relation", 6, <<"B", " ">>, <<>>, 3)}

\* n elements with the names "b", "bb", ..., the later the nearer
Filler(n) ==
    [k \in 1..n |-> Element("node", 10 + k, [i \in 1..k |-> "b"], <<>>, n - k)]

RawLists ==
    UNION {[1..n -> RawElements] : n \in 0..MaxElements}
        \cup {l \o Filler(n) : l \in {<<>>} \cup {<<e>> : e \in RawElements},
                                n \in (MaxResults - 1)..(MaxResults + 2)}

InitPipeline ==
    /\ NoServer
    /\ arg \in {[elements |-> l] : l \in RawLists}
    /\ ret = NoValue

ApplyRestaurants ==
    /\ ret' = [kind |-> "restaurants", value |-> Restaurants(arg.elements)]
    /\ UNCHANGED <<serverVars, arg>>

SpecPipeline == InitPipeline /\ [][ApplyRestaurants]_vars

(***************************************************************************)
(* SpecFetch: calls of fetchRestaurants, one at a time, against a geocoder *)
(* and a list of Overpass backends whose answers are drawn at each contact *)
(***************************************************************************)
\* options.overpassUrls
BackendLists == {<<>>, <<"u1">>, <<"u1", "u2">>}

\* (locationValue, radiusMiles)
FetchRequests ==
    {<<<<"A">>, 1>>, <<<<"a">>, 1>>, <<<<" ", "a">>, 1>>, <<<<"a">>, 2>>}

GeocodeAnswers == {"ok", "nonOk", "empty", "threw"}

BackendAnswers ==
    {[kind |-> "ok", elements |-> l] :
         l \in {<<>>, <<Element("node", 1, <<"a">>, <<>>, 2)>>,
                <<Element("node", 3, <<>>, <<"b">>, 1)>>}}
        \cup {[kind |-> k, elements |-> <<>>] : k \in {"nonOk", "threw"}}

\* the instants the clock shows: the start and the ends of the two lifetimes
FetchInstants ==
    {1, 1 + RESTAURANT_TTL_MS, 2 + RESTAURANT_TTL_MS, 1 + GEO_TTL_MS, 2 + GEO_TTL_MS}

\* `${locationValue.toLowerCase()}::${radiusMiles}`
RestaurantKey(location, radius) == <<ToLowerCase(location), radius>>

\* locationValue.trim().toLowerCase()
GeocodeKey(location) == ToLowerCase(Trim(location))

\* an entry is expired from its expiry instant on
cacheGetEarly(map, key, t) ==
    IF map[key] = NoValue \/ t >= map[key].expiresAt THEN NoValue
    ELSE map[key]

\* cacheGet: the hit whose value is returned, NoValue where null is returned
cacheGet(map, key, t) ==
    IF map[key] = NoValue \/ t > map[key].expiresAt THEN NoValue
    ELSE map[key]

\* cacheGet: the Map it leaves, an expired entry is deleted
cacheDelete(map, key, t) ==
    IF map[key] # NoValue /\ t > map[key].expiresAt
    THEN [map EXCEPT ![key] = NoValue]
    ELSE map

cacheSet(map, key, value, ttl, t) ==
    [map EXCEPT ![key] = [value |-> value, expiresAt |-> t + ttl]]

FetchError(name, url) ==
    [kind |-> "Error", list |-> <<>>, name |-> name, url |-> url]

\* the first error is kept
LastErrorFirst(lastError, error) ==
    IF lastError # NoValue THEN lastError ELSE error

\* lastError = error instanceof Error ? error : new Error("Fetch failed.")
LastError(lastError, error) == error

IdleCall ==
    [pc |-> "idle", location |-> <<>>, radius |-> 0, i |-> 0,
     lastError |-> NoValue, contacted |-> <<>>, result |-> NoValue]

\* the for loop from backend i up to its await, or past the loop
OverpassFrom(c, i, lastError) ==
    IF i <= Len(arg.backends)
    THEN [c EXCEPT !.pc = "overpass", !.i = i, !.lastError = lastError]
    ELSE [c EXCEPT !.pc = "done", !.i = i, !.lastError = lastError,
                   !.result = IF lastError # NoValue THEN lastError
                              ELSE FetchError("Error", "")]

\* fetchRestaurants(locationValue, radiusMiles) up to its first await
FetchCall(location, radius) ==
    LET rkey == RestaurantKey(location, radius)
        gkey == GeocodeKey(location)
        cached == cacheGet(restaurantCache, rkey, now)
        center == cacheGet(geocodeCache, gkey, now)
        start == [IdleCall EXCEPT !.location = location, !.radius = radius]
    IN  /\ call.pc \in {"idle", "done"}
        /\ restaurantCache' = cacheDelete(restaurantCache, rkey, now)
        /\ IF cached # NoValue
           THEN /\ call' = [start EXCEPT !.pc = "done",
                                         !.result = [kind |-> "ok", list |-> cached.value]]
                /\ UNCHANGED geocodeCache
           ELSE /\ geocodeCache' = cacheDelete(geocodeCache, gkey, now)
                /\ call' = IF center # NoValue
                           THEN OverpassFrom(start, 1, NoValue)
                           ELSE [start EXCEPT !.pc = "geocode"]
        /\ UNCHANGED <<now, groups, invites, members, restaurants, votes, inflight,
                       nextId, sends, hits, env, arg, ret>>

\* geocodeLocation: the geocoder answers
GeocodeAnswer(answer) ==
    LET logged == [call EXCEPT !.contacted =
                       Append(@, [url |-> "nominatim", kind |-> answer])]
    IN  /\ call.pc = "geocode"
        /\ IF answer = "ok"
           THEN /\ geocodeCache' = cacheSet(geocodeCache, GeocodeKey(call.location),
                                            "center", GEO_TTL_MS, now)
                /\ call' = OverpassFrom(logged, 1, NoValue)
           ELSE /\ UNCHANGED geocodeCache
                /\ call' = [logged EXCEPT !.pc = "done", !.result =
                               IF answer = "threw" THEN FetchError("Thrown", "nominatim")
                               ELSE [kind |-> "NoResults", list |-> <<>>]]
        /\ UNCHANGED <<now, groups, invites, members, restaurants, votes, inflight,
                       nextId, sends, hits, restaurantCache, env, arg, ret>>

\* one turn of the for loop: the backend answers
BackendAnswer(answer) ==
    LET url == arg.backends[call.i]
        logged == [call EXCEPT !.contacted =
                       Append(@, [url |-> url, kind |-> answer.kind])]
        result == Restaurants(answer.elements)
        error == FetchError(IF answer.kind = "nonOk" THEN "UpstreamError"
                            ELSE "Thrown", url)
    IN  /\ call.pc = "overpass"
        /\ IF answer.kind = "ok"
           THEN /\ call' = [logged EXCEPT !.pc = "done", !.lastError = NoValue,
                                          !.result = result]
                /\ restaurantCache' =
                       IF result.kind = "ok"
                       THEN cacheSet(restaurantCache,
                                     RestaurantKey(call.location, call.radius),
                                     result.list, RESTAURANT_TTL_MS, now)
                       ELSE restaurantCache
           ELSE /\ call' = OverpassFrom(logged, call.i + 1,
                                        LastError(call.lastError, error))
                /\ UNCHANGED restaurantCache
        /\ UNCHANGED <<now, groups, invites, members, restaurants, votes, inflight,
                       nextId, sends, hits, geocodeCache, env, arg, ret>>

\* time passes, also while a call waits for an answer
Advance(t) ==
    /\ t > now
    /\ now' = t
    /\ UNCHANGED <<groups, invites, members, restaurants, votes, inflight,
                   nextId, sends, hits, osmVars, env, arg, ret>>

InitFetch ==
    /\ NoApp
    /\ geocodeCache = [k \in {GeocodeKey(r[1]) : r \in FetchRequests} |-> NoValue]
    /\ restaurantCache =
           [k \in {RestaurantKey(r[1], r[2]) : r \in FetchRequests} |-> NoValue]
    /\ call = IdleCall
    /\ arg \in {[backends |-> b] : b \in BackendLists}
    /\ ret = NoValue

NextFetch ==
    \/ \E r \in FetchRequests : FetchCall(r[1], r[2])
    \/ \E a \in GeocodeAnswers : GeocodeAnswer(a)
    \/ \E a \in BackendAnswers : BackendAnswer(a)
    \/ \E t \in FetchInstants : Advance(t)

SpecFetch == InitFetch /\ [][NextFetch]_vars

(***************************************************************************)
(* Claims                                                                  *)
(***************************************************************************)
MembersOf(g) == listMembers(g)
IsClosed(g) == groups[g].status = "closed"
IsOpen(g) == groups[g].status = "open"

\* C1: over a group's lifetime sendResultNotification is invoked at most
\* once for each member, under any interleaving of vote and close requests.
C1_OneResultNotificationPerMember ==
    \A m \in DOMAIN sends : sends[m] <= 1

\* C2: a group goes from open to closed at most once and never back; the
\* step that closes it sets decidedRestaurantId and decidedAt, which were
\* null before, and no later step changes status, decidedRestaurantId or
\* decidedAt.
C2_ClosedOnce ==
    [][\A g \in GroupIds :
          /\ IsClosed(g) =>
                 /\ groups'[g].status = "closed"
                 /\ groups'[g].decidedRestaurantId = groups[g].decidedRestaurantId
                 /\ groups'[g].decidedAt = groups[g].decidedAt
          /\ (IsOpen(g) /\ groups'[g].status = "closed") =>
                 /\ groups[g].decidedRestaurantId = NullId
                 /\ groups[g].decidedAt = NullTime
                 /\ groups'[g].decidedAt = now
                 /\ groups'[g].decidedAt # NullTime
          /\ IsOpen(g) => groups'[g].status \in {"open", "closed"}]_vars

\* a closed group, seen after the clock has moved past the closing step
C2_Witness ==
    \E g \in GroupIds :
        /\ IsClosed(g)
        /\ groups[g].decidedAt < now
        /\ groups[g].resultSentAt = now

AlreadyNotified(g) == IsClosed(g) /\ groups[g].resultSentAt # NullTime

\* C3: a close request on a group that is closed and has resultSentAt set
\* writes nothing, sends nothing, suspends nothing and answers 200 with
\* votingComplete = true, however often it is repeated.
C3_CloseIsIdempotent ==
    /\ [](\A g \in GroupIds :
             AlreadyNotified(g) =>
                 /\ CloseFinalization(g).group = groups[g]
                 /\ CloseFinalization(g).notified = {}
                 /\ ~CloseFinalization(g).awaiting
                 /\ CloseResponse(g).code = 200
                 /\ CloseResponse(g).status.votingComplete)
    /\ [][\A g \in GroupIds :
             (AlreadyNotified(g) /\ Close(g)) => UNCHANGED vars]_vars

\* a closed and notified group, after the clock has moved past the stamp
C3_Witness ==
    \E g \in GroupIds :
        /\ AlreadyNotified(g)
        /\ groups[g].resultSentAt < now
        /\ \E m \in MembersOf(g) : sends[m] = 1

\* the least t >= 1 with 100 * t >= 66 * m
LeastThreshold(m) ==
    CHOOSE t \in 1..(m + 1) :
        /\ 100 * t >= 66 * m
        /\ \A u \in 1..(t - 1) : 100 * u < 66 * m

YesOf(summary, id) == IF id \in DOMAIN summary THEN summary[id].yes ELSE 0
NoOf(summary, id) == IF id \in DOMAIN summary THEN summary[id].no ELSE 0

ArgDeadlineReached ==
    arg.group.deadline # InvalidDate /\ arg.group.deadline <= arg.now

\* the positions of the list whose restaurant reaches the threshold
ArgConsensusAt ==
    {i \in 1..Len(arg.list) :
        YesOf(arg.summary, arg.list[i]) >= LeastThreshold(arg.membersCount)}

ArgFirstConsensus == CHOOSE i \in ArgConsensusAt : \A j \in ArgConsensusAt : i <= j

\* C4: votingComplete is true exactly when the group is closed, or there
\* is at least one member and the deadline is reached or some restaurant
\* has reached the threshold.
C4_VotingComplete ==
    ret.kind = "status" =>
        (ret.value.votingComplete <=>
            \/ arg.group.status = "closed"
            \/ /\ arg.membersCount >= 1
               /\ (ArgDeadlineReached \/ ArgConsensusAt # {}))

\* consensus completes the voting of an open group before its deadline
C4_Witness ==
    /\ ret.kind = "status"
    /\ ret.value.votingComplete
    /\ arg.group.status = "open"
    /\ ~ArgDeadlineReached
    /\ arg.membersCount = 3

\* C5: winnerRestaurantId is the decided restaurant if set, else the
\* consensus restaurant if there is one, else the result of computeWinner
\* when the deadline is reached and there is a member, else null.
C5_WinnerPriority ==
    ret.kind = "status" =>
        ret.value.winnerRestaurantId =
            IF arg.group.decidedRestaurantId # NullId
            THEN arg.group.decidedRestaurantId
            ELSE IF ArgConsensusAt # {}
            THEN arg.list[ArgFirstConsensus]
            ELSE IF ArgDeadlineReached /\ arg.membersCount >= 1
            THEN computeWinner(arg.summary, arg.list)
            ELSE NullId

\* a decided restaurant is reported although another one has consensus
C5_Witness ==
    /\ ret.kind = "status"
    /\ arg.group.decidedRestaurantId # NullId
    /\ ArgConsensusAt # {}
    /\ arg.list[ArgFirstConsensus] # arg.group.decidedRestaurantId
    /\ ret.value.winnerRestaurantId = arg.group.decidedRestaurantId

Score(i) == YesOf(arg.summary, arg.list[i]) - NoOf(arg.summary, arg.list[i])
YesAt(i) == YesOf(arg.summary, arg.list[i])
ArgCandidates == {i \in 1..Len(arg.list) : YesAt(i) > 0}

\* position i is ahead of position j in the ranking
Beats(i, j) ==
    \/ Score(i) > Score(j)
    \/ Score(i) = Score(j) /\ YesAt(i) > YesAt(j)
    \/ Score(i) = Score(j) /\ YesAt(i) = YesAt(j) /\ i < j

\* C6: computeWinner returns, among the restaurants with a yes vote, the
\* one with the highest score, then the higher yes-count, then the earliest
\* position in the list; null when no restaurant has a yes vote.
C6_ComputeWinner ==
    ret.kind = "winner" =>
        IF ArgCandidates = {} THEN ret.value = NullId
        ELSE \E i \in ArgCandidates :
                 /\ ret.value = arg.list[i]
                 /\ \A j \in ArgCandidates \ {i} : Beats(i, j)

\* the winner is behind a candidate in the list and wins on the yes-count
C6_Witness ==
    /\ ret.kind = "winner"
    /\ Len(arg.list) = 3
    /\ ret.value = arg.list[2]
    /\ 1 \in ArgCandidates
    /\ Score(1) = Score(2)
    /\ YesAt(2) > YesAt(1)

\* C7: consensusRestaurantId is the first restaurant of the list whose
\* yes-count reaches the threshold, and null when none does.
C7_FirstConsensus ==
    ret.kind = "status" =>
        IF ArgConsensusAt = {} THEN ret.value.consensusRestaurantId = NullId
        ELSE \E i \in ArgConsensusAt :
                 /\ ret.value.consensusRestaurantId = arg.list[i]
                 /\ \A j \in ArgConsensusAt : i <= j

\* the first of two restaurants is reported although the second has more yes
C7_Witness ==
    /\ ret.kind = "status"
    /\ Len(arg.list) = 2
    /\ ArgConsensusAt = {1, 2}
    /\ YesAt(2) > YesAt(1)
    /\ ret.value.consensusRestaurantId = arg.list[1]

\* C8: the threshold is the least t >= 1 with 100 * t >= 66 * m.
C8_Threshold ==
    ret.kind = "status" =>
        ret.value.threshold = LeastThreshold(arg.membersCount)

\* a count whose product with 0.66 is a whole number
C8_Witness ==
    /\ ret.kind = "status"
    /\ arg.membersCount = 100
    /\ ret.value.threshold = 66

\* C9: a closed group has at least one member.
C9_NoEmptyGroupCloses ==
    \A g \in GroupIds : IsClosed(g) => MembersOf(g) # {}

\* a group closed at its deadline with a single member
C9_Witness ==
    \E g \in GroupIds :
        /\ IsClosed(g)
        /\ Cardinality(MembersOf(g)) = 1
        /\ groups[g].decidedAt >= groups[g].deadline

NoYesVote(g) == \A v \in votes : v.groupId = g => v.decision # "yes"

\* C10: a close request on an open group past its deadline, with a member
\* and no yes vote, closes it without a winner, leaves resultSentAt null
\* and sends nothing; the stamp stays null afterwards.
C10_DeadlineCloseWithoutWinner ==
    /\ [][\A g \in GroupIds :
             (/\ IsOpen(g)
              /\ DeadlineReached(groups[g], now)
              /\ MembersOf(g) # {}
              /\ NoYesVote(g)
              /\ Close(g)) =>
                 /\ groups'[g].status = "closed"
                 /\ groups'[g].decidedRestaurantId = NullId
                 /\ groups'[g].resultSentAt = NullTime
                 /\ sends' = sends
                 /\ inflight' = inflight]_vars
    /\ [](\A g \in GroupIds :
             (IsClosed(g) /\ groups[g].decidedRestaurantId = NullId) =>
                 /\ groups[g].resultSentAt = NullTime
                 /\ \A m \in MembersOf(g) : sends[m] = 0)

\* a group closed without a winner although it has restaurants
C10_Witness ==
    \E g \in GroupIds :
        /\ IsClosed(g)
        /\ groups[g].decidedRestaurantId = NullId
        /\ listRestaurants(g) # <<>>
        /\ \E v \in votes : v.groupId = g /\ v.decision = "no"

StampedGroup(g) == groups[g].status # "none" /\ groups[g].resultSentAt # NullTime

\* a closed group with a winner that is no longer in the restaurant list and
\* whose result has not been stamped
WinnerMissing(g) ==
    /\ IsClosed(g)
    /\ groups[g].resultSentAt = NullTime
    /\ groups[g].decidedRestaurantId # NullId
    /\ groups[g].decidedRestaurantId \notin ListIds(listRestaurants(g))

\* C11: a result dispatch always ends with resultSentAt written: when the
\* sends settle, fulfilled or rejected, the stamp is written and the request
\* is answered 200; when the winner is no longer in the restaurant list the
\* stamp is written at once, nothing is sent and the request is answered
\* 200; and once the stamp is written it stays and no request sends again.
C11_StampWhateverTheOutcome ==
    /\ [](\A g \in GroupIds :
             /\ WinnerMissing(g) => CloseResponse(g).code = 200
             /\ \A rec \in InflightRecords :
                    rec.kind = "finalize" => FinalizeResumeResponse(rec).code = 200)
    /\ [][\A g \in GroupIds :
             /\ \A rec \in InflightRecords, o \in env.sendOutcomes :
                    (rec.kind = "finalize" /\ rec.group = g /\ FinalizeResume(rec, o))
                        => groups'[g].resultSentAt = now
             /\ (WinnerMissing(g) /\ Close(g)) =>
                    /\ groups'[g].resultSentAt = now
                    /\ sends' = sends
                    /\ inflight' = inflight
             /\ StampedGroup(g) =>
                    /\ groups'[g].resultSentAt # NullTime
                    /\ \A m \in MembersOf(g) : sends'[m] = sends[m]]_vars

\* the stamp was written for a winner that is not in the list: the one
\* dispatch made before the list was replaced is still awaited
C11_Witness ==
    \E g \in GroupIds :
        /\ StampedGroup(g)
        /\ groups[g].decidedRestaurantId # NullId
        /\ groups[g].decidedRestaurantId \notin ListIds(listRestaurants(g))
        /\ InflightOf("finalize") = 1
        /\ MembersOf(g) # {}
        /\ \A m \in MembersOf(g) : sends[m] = 1

SameKey(v, w) ==
    v.groupId = w.groupId /\ v.restaurantId = w.restaurantId /\ v.memberId = w.memberId

VoteKey(g, r, m) == [groupId |-> g, restaurantId |-> r, memberId |-> m]

VoteInputs(g) ==
    {<<m, r, d>> \in MembersOf(g) \X ListIds(listRestaurants(g)) \X {"yes", "no", "null"} :
        Recorded(g, m, r, d)}

\* C12: the vote table holds at most one row per (group, restaurant,
\* member); a recorded yes or no leaves exactly one row for its key, with
\* the new decision, a recorded null leaves none, and the rows of the other
\* keys are kept.
C12_OneVotePerKey ==
    /\ \A v, w \in votes : SameKey(v, w) => v = w
    /\ \A g \in GroupIds : \A in \in VoteInputs(g) :
           LET k == VoteKey(g, in[2], in[1])
               after == VotesAfter(g, in[1], in[2], in[3])
           IN  /\ {v \in after : SameKey(v, k)} =
                      IF in[3] = "null" THEN {}
                      ELSE {[groupId |-> g, restaurantId |-> in[2],
                             memberId |-> in[1], decision |-> in[3]]}
               /\ {v \in after : ~SameKey(v, k)} = {v \in votes : ~SameKey(v, k)}

\* a stored yes that the same member can still turn into a no or retract,
\* next to the vote of another member on the same restaurant
C12_Witness ==
    \E g \in GroupIds : \E v, w \in votes :
        /\ IsOpen(g)
        /\ v.groupId = g /\ w.groupId = g
        /\ v.restaurantId = w.restaurantId
        /\ v.memberId # w.memberId
        /\ v.decision = "yes" /\ w.decision = "no"
        /\ <<v.memberId, v.restaurantId, "no">> \in VoteInputs(g)

\* the summary a vote response carries for the vote table given
SummaryOf(table, g) == summarizeVotes(getVoteSummary(table, g), listRestaurants(g))

\* the vote table after member m casts d on r and then sends a null
\* decision for r: a cast that closes the group makes the second request
\* return before its statement
RetractAfter(g, m, r, d) ==
    IF VoteFinalization(g, m, r, d).group.status = "closed"
    THEN VotesAfter(g, m, r, d)
    ELSE deleteVote(VotesAfter(g, m, r, d), g, r, m)

CastInputs(g) == {in \in VoteInputs(g) : in[3] # "null"}

HasVote(g, m, r) == \E v \in votes : SameKey(v, VoteKey(g, r, m))

\* C13 as stated: on an open group a cast followed by a retraction leaves
\* the summary as it was before the two requests.
C13_RoundTripAlways ==
    \A g \in GroupIds : \A in \in CastInputs(g) :
        SummaryOf(RetractAfter(g, in[1], in[2], in[3]), g) = SummaryOf(votes, g)

\* C13, amended: the round trip restores the summary when the member had
\* no vote on the restaurant and the cast leaves the group open; a
\* restaurant without any vote before has the entry {yes: 0, no: 0} again.
C13_RoundTrip ==
    \A g \in GroupIds : \A in \in CastInputs(g) :
        (/\ ~HasVote(g, in[1], in[2])
         /\ VoteFinalization(g, in[1], in[2], in[3]).group.status = "open") =>
            /\ SummaryOf(RetractAfter(g, in[1], in[2], in[3]), g) = SummaryOf(votes, g)
            /\ (\A v \in votes : v.groupId = g => v.restaurantId # in[2]) =>
                   SummaryOf(RetractAfter(g, in[1], in[2], in[3]), g)[in[2]] = ZeroCounts

\* a member without a vote on a restaurant that another member has voted
\* on, whose yes would not close the group
C13_Witness ==
    \E g \in GroupIds : \E in \in CastInputs(g) :
        /\ in[3] = "yes"
        /\ ~HasVote(g, in[1], in[2])
        /\ VoteFinalization(g, in[1], in[2], in[3]).group.status = "open"
        /\ \E v \in votes : v.groupId = g /\ v.restaurantId = in[2]
        /\ SummaryOf(VotesAfter(g, in[1], in[2], in[3]), g) # SummaryOf(votes, g)

\* the vote requests with a member and a restaurant of the group
ValidVotes(g) ==
    MembersOf(g) \X ListIds(listRestaurants(g)) \X {"yes", "no", "null"}

\* C14: a vote request for a member and a restaurant of a closed group
\* changes no vote and no group row; it is answered 200 with the stored
\* summary and a status with votingComplete = true.
C14_ClosedGroupVoteFrame ==
    /\ [](\A g \in GroupIds : \A in \in ValidVotes(g) :
             IsClosed(g) =>
                 /\ VoteResponse(g, in[1], in[2], in[3]).code = 200
                 /\ VoteResponse(g, in[1], in[2], in[3]).status = StatusOf(g)
                 /\ VoteResponse(g, in[1], in[2], in[3]).status.votingComplete
                 /\ VoteResponseSummary(g, in[1], in[2], in[3]) = SummaryOf(votes, g))
    /\ [][\A g \in GroupIds :
             IsClosed(g) =>
                 \/ UNCHANGED <<votes, groups, sends, inflight>>
                 \/ \A in \in ValidVotes(g) : ~Vote(g, in[1], in[2], in[3])]_vars

\* a closed group in which a member could still change a stored vote
C14_Witness ==
    \E g \in GroupIds : \E in \in ValidVotes(g) :
        /\ IsClosed(g)
        /\ HasVote(g, in[1], in[2])
        /\ in[3] = "null"
        /\ groups[g].resultSentAt # NullTime

\* the vote requests the clients can send to a group
VoteRequests ==
    (0..MaxMembers) \X {toScopedId(h, r) : h \in GroupIds, r \in env.voteIds}
        \X env.decisions

InvalidVote(g, in) ==
    \/ in[1] \notin MembersOf(g)
    \/ in[2] \notin ListIds(listRestaurants(g))
    \/ in[3] \notin {"yes", "no", "null"}

\* C15: a vote request to an existing group with an invalid member, an
\* invalid restaurant or an invalid decision is answered 400.
C15_InvalidVoteIs400 ==
    \A g \in GroupIds : \A in \in VoteRequests :
        (groups[g] # NoGroup /\ InvalidVote(g, in)) =>
            VoteResponse(g, in[1], in[2], in[3]).code = 400

\* the outcomes for which the transaction of storeRestaurants commits: a
\* list without a repeated id, or the empty list stored after NoResults
Commits(o) ==
    \/ o.kind = "NoResults"
    \/ o.kind = "ok" /\ \A i, j \in 1..Len(o.list) : o.list[i] = o.list[j] => i = j

\* C16: when a restaurant lookup settles, either the new set is stored in
\* one step, after which the group's list is the new set with the group id
\* prefixed to each id and the group has no vote, the other groups keeping
\* theirs, or nothing is stored and the restaurants and votes are all kept.
C16_StoreRestaurantsAtomic ==
    [][\A rec \in InflightRecords : \A o \in env.lookupOutcomes :
          (rec.kind = "lookup" /\ LookupDone(rec, o)) =>
              IF Commits(o)
              THEN /\ Len(restaurants'[rec.group]) = Len(o.list)
                   /\ \A i \in 1..Len(o.list) :
                          restaurants'[rec.group][i] = <<rec.group, o.list[i]>>
                   /\ \A v \in votes' : v.groupId # rec.group
                   /\ \A v \in votes : v.groupId # rec.group => v \in votes'
                   /\ \A h \in GroupIds \ {rec.group} : restaurants'[h] = restaurants[h]
              ELSE UNCHANGED <<votes, restaurants>>]_vars

\* a list stored after the group had decided on a restaurant of the list
\* before it: the votes are gone with the old list
C16_Witness ==
    \E g \in GroupIds :
        /\ IsClosed(g)
        /\ groups[g].decidedRestaurantId # NullId
        /\ listRestaurants(g) # <<>>
        /\ groups[g].decidedRestaurantId \notin ListIds(listRestaurants(g))
        /\ \A v \in votes : v.groupId # g

\* the invites of the group for a contact, as a join looks them up
Matching(table, g, type, normalized) ==
    {i \in table : i.groupId = g /\ i.type = type /\ i.normalized = normalized}

\* the group has an invite for the contact that is not joined
Invited(g, type, normalized) ==
    \E i \in Matching(invites, g, type, normalized) : i.status # "joined"

\* the group has no member and no invite for the contact
FirstMember(g, type, normalized) ==
    MembersOf(g) = {} /\ Matching(invites, g, type, normalized) = {}

JoinRequests == env.types \X env.contacts

\* C17: a join request that passes validation is answered 403 and creates
\* no member unless the group has an invite for the contact that is not
\* joined, or has no member and no invite for the contact; a step that
\* creates a member is taken in one of these two cases and leaves an invite
\* for the member's contact in status joined.
C17_JoinNeedsInvite ==
    /\ [](\A g \in GroupIds : \A in \in JoinRequests :
             LET normalized == normalizeContact(Trim(in[2]), in[1])
             IN  (/\ groups[g] # NoGroup
                  /\ normalized # <<>>
                  /\ ~Invited(g, in[1], normalized)
                  /\ ~FirstMember(g, in[1], normalized)) =>
                     JoinResponse(g, TRUE, in[1], in[2]).code = 403)
    /\ [][/\ Len(members') >= Len(members)
          /\ Len(members') <= Len(members) + 1
          /\ \A k \in 1..Len(members) : members'[k] = members[k]
          /\ Len(members') = Len(members) + 1 =>
                 LET new == members'[Len(members')]
                     normalized == normalizeContact(new.contact, new.type)
                 IN  /\ \/ Invited(new.groupId, new.type, normalized)
                        \/ FirstMember(new.groupId, new.type, normalized)
                     /\ \E i \in Matching(invites', new.groupId, new.type, normalized) :
                            /\ i.status = "joined"
                            /\ i.value = new.contact]_vars

\* the first member and an invited contact have both joined
C17_Witness ==
    \E g \in GroupIds :
        /\ Cardinality(MembersOf(g)) = 2
        /\ Cardinality(listInvites(g)) = 2
        /\ \A i \in listInvites(g) : i.status = "joined"
        /\ \E m, n \in MembersOf(g) : members[m].contact # members[n].contact

InviteIds == 1..MaxInvites

\* the invite of the group with the id, if it may be removed
Removable(g, id) ==
    {i \in invites : i.groupId = g /\ i.id = id /\ i.status # "joined"}

\* C18: a delete-invite request for an id that is not an invite of the
\* group, or whose invite is joined, is answered 400 and changes no invite;
\* any other one is answered 200 and removes that invite and no other.
C18_DeleteInvite ==
    /\ [](\A g \in GroupIds : \A id \in InviteIds :
             groups[g] # NoGroup =>
                 DeleteInviteResponse(g, id).code =
                     IF Removable(g, id) = {} THEN 400 ELSE 200)
    /\ [][\A g \in GroupIds : \A id \in InviteIds :
             DeleteInvite(g, id) =>
                 IF groups[g] # NoGroup /\ Removable(g, id) # {}
                 THEN invites' = {i \in invites : i.id # id}
                 ELSE invites' = invites]_vars

\* two invites were created and the one that is not joined was removed
C18_Witness ==
    /\ nextId = 2
    /\ Cardinality(invites) = 1
    /\ \A i \in invites : i.status = "joined"
    /\ Len(members) = 1

\* C19: an invite marked joined keeps that status and is never removed:
\* the invite each member joined with is still there in status joined.
C19_JoinedInviteImmutable ==
    \A m \in MemberIds :
        \E i \in invites :
            /\ i.groupId = members[m].groupId
            /\ i.type = members[m].type
            /\ i.value = members[m].contact
            /\ i.status = "joined"

\* C20: no two invites of a group have the same contact type and the same
\* normalized contact.
C20_InvitesUnique ==
    \A i, j \in invites :
        (i.groupId = j.groupId /\ i.type = j.type /\ i.normalized = j.normalized)
            => i = j

\* the positions of a batch whose entry is kept: its value is not blank and
\* the group has no invite for its type and normalized contact
Kept(g, batch) ==
    {k \in 1..Len(batch) :
        LET normalized == normalizeContact(Trim(batch[k].value), batch[k].type)
        IN  /\ normalized # <<>>
            /\ Matching(invites, g, batch[k].type, normalized) = {}}

\* the number of kept positions up to position k
KeptUpTo(g, batch, k) == Cardinality({j \in Kept(g, batch) : j <= k})

\* C21: of a submitted batch exactly the entries with a non-blank value
\* and without a stored invite for the same type and normalized contact
\* become invites, in the order of the batch; when none is left the
\* request is answered 400, inserts nothing and notifies nobody.
C21_InviteEntriesDropped ==
    /\ [](\A g \in GroupIds : \A batch \in env.batches :
             groups[g] # NoGroup =>
                 LET new == SubmittedInvites(g, batch)
                 IN  /\ Len(new) = Cardinality(Kept(g, batch))
                     /\ \A k \in Kept(g, batch) :
                            LET inv == new[KeptUpTo(g, batch, k)]
                            IN  /\ inv.type = batch[k].type
                                /\ inv.value = Trim(batch[k].value)
                                /\ inv.status = "pending"
                     /\ InviteSubmitResponse(g, batch).code =
                            IF Kept(g, batch) = {} THEN 400 ELSE 0)
    /\ [][\/ UNCHANGED <<invites, inflight, nextId, sends>>
          \/ \A g \in GroupIds : \A batch \in env.batches :
                 ~(InviteSubmitResponse(g, batch).code = 400 /\ InviteSubmit(g, batch))]_vars

\* with an invite stored, a batch of two spellings of its contact loses
\* both entries and is answered 400
C21_Witness ==
    \E g \in GroupIds : \E lost \in env.batches :
        /\ invites # {}
        /\ Len(lost) = 2 /\ Kept(g, lost) = {}
        /\ \A k \in 1..2 : Trim(lost[k].value) # <<>>
        /\ lost[1].value # lost[2].value
        /\ InviteSubmitResponse(g, lost).code = 400

NotifyingRecords == {rec \in InflightRecords : rec.kind = "invite"}

\* C22: when the notification of an invite settles, an invite that is not
\* joined gets the status skipped if the transport reported skipped, failed
\* if the send threw, and sent otherwise; an invite is pending only while
\* its notification is awaited, so none is pending when the request is
\* answered, and the answer is 200.
C22_InviteOutcomes ==
    /\ [](/\ \A i \in invites :
                i.status = "pending" => \E rec \in NotifyingRecords : rec.id = i.id
          /\ \A rec \in NotifyingRecords :
                InviteNotifiedResponse(rec).code =
                    IF \E other \in BagToSet(inflight (-) SetToBag({rec})) :
                           other.kind = "invite" /\ other.req = rec.req
                    THEN 0 ELSE 200)
    /\ [][\A rec \in NotifyingRecords : \A o \in env.inviteOutcomes :
             InviteNotified(rec, o) =>
                 \A i \in invites :
                     (i.id = rec.id /\ i.status # "joined") =>
                         [i EXCEPT !.status =
                              CASE o = "skipped" -> "skipped"
                                [] o = "threw" -> "failed"
                                [] OTHER -> "sent"] \in invites']_vars

\* the two invites of one batch have settled, one skipped and one failed
C22_Witness ==
    /\ NotifyingRecords = {}
    /\ \E i, j \in invites :
           /\ i.id # j.id
           /\ i.status = "skipped"
           /\ j.status = "failed"

LookupRecords == {rec \in InflightRecords : rec.kind = "lookup"}

LookupRequests == GroupIds \X env.ips

\* the key's window is open: a request opened it at t0 = resetAt - windowMs and
\* the clock has not passed t0 + windowMs
InWindow(k) == hits[k] # NoValue /\ now <= hits[k].resetAt

\* the key has used up its window
Throttled(k) == InWindow(k) /\ hits[k].count >= env.limiter.max

\* C24: with a cap max >= 1, the count of a key's window, which is 1 after the
\* request that opened it and grows by one with every request admitted in the
\* window, never exceeds max; a request of a key whose open window has
\* reached the cap is answered 429 and leaves the key's count and reset time
\* (and the whole Map) as they were
C24_LimiterCap ==
    /\ [](\A k \in DOMAIN hits :
              /\ hits[k] # NoValue => hits[k].count \in 1..env.limiter.max
              /\ Throttled(k) =>
                     \A in \in LookupRequests :
                         LimiterKey(in[2]) = k =>
                             /\ LookupStartResponse(in[1], in[2]).code = 429
                             /\ restaurantLimiter(in[2]).hits = hits)
    /\ [][\A in \in LookupRequests :
              LookupStart(in[1], in[2]) =>
                  LET k == LimiterKey(in[2])
                  IN  /\ ~InWindow(k) =>
                             hits'[k] = [count |-> 1,
                                         resetAt |-> now + env.limiter.windowMs]
                      /\ (InWindow(k) /\ ~Throttled(k)) =>
                             hits'[k] = [count |-> hits[k].count + 1,
                                         resetAt |-> hits[k].resetAt]
                      /\ Throttled(k) => hits' = hits]_vars

\* a key has used up a window of two requests and is asked again at the very
\* end of the window
C24_Witness ==
    \E k \in DOMAIN hits :
        /\ env.limiter.max = 2
        /\ env.limiter.windowMs = 1
        /\ Throttled(k)
        /\ now = hits[k].resetAt

\* the key's window has passed
Expired(k) == hits[k] # NoValue /\ now > hits[k].resetAt

\* C25: a request of a key whose window has passed (the clock is strictly
\* greater than the reset time) is admitted, whatever the count was, and
\* opens a new window with count 1; a request changes the bucket of no key but
\* its own; a request without an ip is counted under the key "unknown"
C25_AdmittedAgain ==
    /\ [](\A in \in LookupRequests :
              Expired(LimiterKey(in[2])) =>
                  LookupStartResponse(in[1], in[2]).code # 429)
    /\ [][\A in \in LookupRequests :
              LookupStart(in[1], in[2]) =>
                  LET k == IF in[2] = "" THEN "unknown" ELSE in[2]
                  IN  /\ Expired(k) =>
                             hits'[k] = [count |-> 1,
                                         resetAt |-> now + env.limiter.windowMs]
                      /\ \A j \in DOMAIN hits \ {k} : hits'[j] = hits[j]]_vars

\* a throttled key's window has passed while another key's window is open
C25_Witness ==
    \E k, j \in DOMAIN hits :
        /\ k # j
        /\ Expired(k)
        /\ hits[k].count >= env.limiter.max
        /\ InWindow(j)

\* the raw element at position i has a name or brand tag and coordinates
RawValid(i) ==
    LET e == arg.elements[i]
    IN  (e.name # <<>> \/ e.brand # <<>>) /\ e.at # NoCoordinates

RawName(i) ==
    LET e == arg.elements[i]
    IN  IF e.name # <<>> THEN e.name ELSE e.brand

\* the valid elements that no earlier valid element shares its name with
RawFirst(i) ==
    /\ RawValid(i)
    /\ \A j \in 1..(i - 1) :
           RawValid(j) => ToLowerCase(Trim(RawName(j))) # ToLowerCase(Trim(RawName(i)))

Deduplicated == {i \in 1..Len(arg.elements) : RawFirst(i)}

RawEntry(i) ==
    [id |-> <<arg.elements[i].type, arg.elements[i].id>>,
     name |-> Trim(RawName(i)),
     distanceMiles |-> arg.elements[i].at]

\* C27: every entry of the result comes from a raw element that has a name
\* or brand and coordinates and is the first of its name (trimmed, lowercased)
\* in raw order; no two entries share such a name; the entries are in
\* ascending order of distance; there are min(12, deduplicated elements) of
\* them and no element left out is nearer than one kept; when no element
\* remains NoResults is raised instead of an empty list
C27_Pipeline ==
    ret # NoValue =>
        LET out == ret.value.list
        IN  /\ \A p \in 1..Len(out) : \E i \in Deduplicated : out[p] = RawEntry(i)
            /\ \A p, q \in 1..Len(out) :
                   ToLowerCase(out[p].name) = ToLowerCase(out[q].name) => p = q
            /\ \A p, q \in 1..Len(out) :
                   p < q => out[p].distanceMiles <= out[q].distanceMiles
            /\ Len(out) = Min(MaxResults, Cardinality(Deduplicated))
            /\ \A i \in Deduplicated :
                   (\A p \in 1..Len(out) : out[p] # RawEntry(i)) =>
                       \A p \in 1..Len(out) :
                           out[p].distanceMiles <= arg.elements[i].at
            /\ ret.value.kind = IF Deduplicated = {} THEN "NoResults" ELSE "ok"

\* more than 12 elements remain after an element without a name or without
\* coordinates was dropped, and 12 were returned
C27_Witness ==
    /\ ret # NoValue
    /\ Cardinality(Deduplicated) > MaxResults
    /\ Len(ret.value.list) = MaxResults
    /\ \E i \in 1..Len(arg.elements) : ~RawValid(i)

\* the backends the call has contacted so far, with what each answered
BackendLog ==
    LET log == call.contacted
    IN  IF log # <<>> /\ log[1].url = "nominatim" THEN Tail(log) ELSE log

\* the call got past the geocoding
Geocoded ==
    call.contacted = <<>> \/ call.contacted[1].url # "nominatim"
        \/ call.contacted[1].kind = "ok"

\* C26: the backends contacted are the first ones of the configured list, in
\* list order; none is contacted after one that answered successfully, whose
\* answer is the one used; a call that waits for a backend has seen only
\* failures and has a next backend to ask; a call that ended on a backend's
\* failure has asked every backend and fails with the error of the last one;
\* with no backend configured the call fails with the fetch-failure error and
\* no backend contacted
C26_BackendsInOrder ==
    LET log == BackendLog
        n == Len(log)
        urls == arg.backends
    IN  /\ n <= Len(urls)
        /\ \A k \in 1..n : log[k].url = urls[k]
        /\ \A k \in 1..(n - 1) : log[k].kind # "ok"
        /\ call.pc = "overpass" =>
               /\ n < Len(urls)
               /\ \A k \in 1..n : log[k].kind # "ok"
        /\ (call.pc = "done" /\ n > 0 /\ log[n].kind = "ok") =>
               call.result.kind \in {"ok", "NoResults"}
        /\ (call.pc = "done" /\ n > 0 /\ log[n].kind # "ok") =>
               /\ n = Len(urls)
               /\ call.result =
                      [kind |-> "Error", list |-> <<>>,
                       name |-> IF log[n].kind = "nonOk" THEN "UpstreamError"
                                ELSE "Thrown",
                       url |-> urls[n]]
        /\ (call.pc = "done" /\ urls = <<>> /\ Geocoded) =>
               call.result = [kind |-> "Error", list |-> <<>>,
                              name |-> "Error", url |-> ""]

\* two backends failed in different ways and the call failed with the error
\* of the second
C26_Witness ==
    /\ call.pc = "done"
    /\ Len(BackendLog) = 2
    /\ BackendLog[1].kind = "nonOk"
    /\ BackendLog[2].kind = "threw"
    /\ call.result.kind = "Error"
    /\ call.result.url = "u2"

\* the entry under the request's key is within its lifetime
RestaurantsCached(r) ==
    LET e == restaurantCache[<<ToLowerCase(r[1]), r[2]>>]
    IN  e # NoValue /\ now <= e.expiresAt

CenterCached(location) ==
    LET e == geocodeCache[ToLowerCase(Trim(location))]
    IN  e # NoValue /\ now <= e.expiresAt

\* C28: a call whose key (location lowercased, radius) has an entry not older
\* than its lifetime returns the entry's value and contacts no upstream; any
\* other call goes to the upstreams (unless no backend is configured), and to
\* the geocoder exactly when the trimmed lowercased location has no entry
\* within its lifetime; a successful lookup stores its result under the key
\* for 10 minutes and a successful geocode its center for 6 hours
C28_Caches ==
    /\ [](\A r \in FetchRequests :
              RestaurantsCached(r) <=>
                  cacheGet(restaurantCache, RestaurantKey(r[1], r[2]), now) # NoValue)
    /\ [][/\ \A r \in FetchRequests :
                FetchCall(r[1], r[2]) =>
                    IF RestaurantsCached(r)
                    THEN /\ call'.pc = "done"
                         /\ call'.contacted = <<>>
                         /\ call'.result =
                                [kind |-> "ok",
                                 list |-> restaurantCache[<<ToLowerCase(r[1]), r[2]>>].value]
                         /\ UNCHANGED <<restaurantCache, geocodeCache>>
                    ELSE /\ call'.pc \in {"geocode", "overpass"} \/ arg.backends = <<>>
                         /\ call'.pc = "geocode" <=> ~CenterCached(r[1])
          /\ \A a \in BackendAnswers :
                (BackendAnswer(a) /\ call'.result.kind = "ok") =>
                    restaurantCache'[<<ToLowerCase(call.location), call.radius>>] =
                        [value |-> call'.result.list,
                         expiresAt |-> now + RESTAURANT_TTL_MS]
          /\ GeocodeAnswer("ok") =>
                geocodeCache'[ToLowerCase(Trim(call.location))].expiresAt =
                    now + GEO_TTL_MS]_vars

\* a call at the last instant of an entry's lifetime was answered from the cache
C28_Witness ==
    /\ call.pc = "done"
    /\ call.contacted = <<>>
    /\ call.result.kind = "ok"
    /\ now > 1
    /\ \E r \in FetchRequests :
           /\ r[1] = call.location
           /\ r[2] = call.radius
           /\ restaurantCache[<<ToLowerCase(r[1]), r[2]>>] # NoValue
           /\ restaurantCache[<<ToLowerCase(r[1]), r[2]>>].expiresAt = now

\* no group has the code, letters compared without regard to case
UnknownCode(code) ==
    \A g \in DOMAIN groups :
        groups[g] # NoGroup => ToLowerCase(g) # ToLowerCase(code)

\* every group-scoped request but the restaurant lookup is answered 404
OtherRoutes404(code) ==
    LET g == ToUpperCase(code)
    IN  /\ GetStateResponse(g).code = 404
        /\ \A route \in ReadRoutes : ReadResponse(g, route).code = 404
        /\ \A batch \in env.batches : InviteSubmitResponse(g, batch).code = 404
        /\ \A id \in 1..MaxInvites : DeleteInviteResponse(g, id).code = 404
        /\ \A ok \in BOOLEAN : \A in \in JoinRequests :
               JoinResponse(g, ok, in[1], in[2]).code = 404
        /\ \A in \in VoteRequests : VoteResponse(g, in[1], in[2], in[3]).code = 404
        /\ CloseResponse(g).code = 404

\* a group-scoped request for the code is served
RequestFor(code) ==
    LET g == ToUpperCase(code)
    IN  \/ GetState(g)
        \/ \E route \in ReadRoutes : Read(g, route)
        \/ \E batch \in env.batches : InviteSubmit(g, batch)
        \/ \E id \in 1..MaxInvites : DeleteInvite(g, id)
        \/ \E ok \in BOOLEAN : \E in \in JoinRequests : Join(g, ok, in[1], in[2])
        \/ \E ip \in env.ips : LookupStart(g, ip)
        \/ \E in \in VoteRequests : Vote(g, in[1], in[2], in[3])
        \/ Close(g)

\* C29 as stated: every group-scoped request for a code that matches no group
\* is answered 404, the restaurant lookup included
C29_UnknownCodeIs404 ==
    \A code \in env.codes :
        UnknownCode(code) =>
            /\ OtherRoutes404(code)
            /\ \A ip \in env.ips :
                   LookupStartResponse(ToUpperCase(code), ip).code = 404

\* C29: a group-scoped request for a code that matches no group, letters
\* compared without regard to case, is answered 404, except that the
\* restaurant lookup of a throttled client is answered 429; a code that
\* matches a group in another case of its letters is not answered 404; the
\* request changes no table, starts no lookup and sends no notification
C29_UnknownCode ==
    /\ [](\A code \in env.codes :
              /\ UnknownCode(code) =>
                     /\ OtherRoutes404(code)
                     /\ \A ip \in env.ips :
                            LookupStartResponse(ToUpperCase(code), ip).code =
                                IF Throttled(LimiterKey(ip)) THEN 429 ELSE 404
              /\ ~UnknownCode(code) => GetStateResponse(ToUpperCase(code)).code = 200)
    /\ [][\/ UNCHANGED <<dbVars, inflight, sends, nextId>>
          \/ \A code \in env.codes : UnknownCode(code) => ~RequestFor(code)]_vars

\* a group exists, reachable under its code in lower case, while a client
\* that asks for an unknown code is throttled
C29_Witness ==
    /\ ~UnknownCode(<<"a">>)
    /\ UnknownCode(<<"b">>)
    /\ \E ip \in env.ips : Throttled(LimiterKey(ip))

LateRecords == {rec \in InflightRecords : rec.kind = "late"}

\* C30: the step that answers a lookup request with 429, with 504 or with
\* 502 leaves the stored restaurants and votes as they are, and so does the
\* step in which a lookup that had timed out settles afterwards
C30_FailedLookupFrame ==
    [][\/ UNCHANGED <<restaurants, votes>>
       \/ /\ \A in \in LookupRequests :
                 LookupStartResponse(in[1], in[2]).code = 429
                     => ~LookupStart(in[1], in[2])
          /\ \A rec \in LookupRecords : \A o \in env.lookupOutcomes :
                 LookupDoneResponse(o).code \in {502, 504} => ~LookupDone(rec, o)
          /\ \A rec \in LateRecords : \A o \in env.lateOutcomes :
                 ~LookupLate(rec, o)]_vars

\* a lookup that timed out is still pending while the group has restaurants
\* and a vote, and a client is throttled
C30_Witness ==
    /\ \E rec \in LateRecords :
           /\ restaurants[rec.group] # <<>>
           /\ \E v \in votes : v.groupId = rec.group
    /\ \E ip \in env.ips : Throttled(LimiterKey(ip))

VotesOf(g) == {v \in votes : v.groupId = g}

Decided(g) == IsClosed(g) /\ groups[g].decidedRestaurantId # NullId

\* C31: once a group is closed no step changes its stored restaurant list or
\* its votes, and the restaurant a closed group decided on is in the
\* group's stored list.
C31_ClosedGroupFrozen ==
    /\ [](\A g \in GroupIds :
            Decided(g) => groups[g].decidedRestaurantId \in ListIds(listRestaurants(g)))
    /\ [][\A g \in GroupIds :
            IsClosed(g) => /\ restaurants'[g] = restaurants[g]
                           /\ {v \in votes' : v.groupId = g} = VotesOf(g)]_vars

JoinedInvites(g) == {i \in listInvites(g) : i.status = "joined"}

\* C32: no two members of a group have the same contact type and the same
\* normalized contact, and a group has as many members as invites in
\* status joined.
C32_JoinOnce ==
    \A g \in GroupIds :
        /\ \A m, n \in listMembers(g) :
               (/\ members[m].type = members[n].type
                /\ normalizeContact(members[m].contact, members[m].type)
                       = normalizeContact(members[n].contact, members[n].type))
                   => m = n
        /\ Cardinality(listMembers(g)) = Cardinality(JoinedInvites(g))

\* C33: the fields of a group are consistent: decidedAt is set exactly when
\* the status is closed, decidedRestaurantId is set only when the status is
\* closed, and resultSentAt is set only on a closed group whose
\* decidedRestaurantId is set.
C33_GroupFieldsConsistent ==
    \A g \in GroupIds :
        groups[g] # NoGroup =>
            /\ (groups[g].decidedAt # NullTime) <=> IsClosed(g)
            /\ groups[g].decidedRestaurantId # NullId => IsClosed(g)
            /\ groups[g].resultSentAt # NullTime => Decided(g)

\* a group that closed on a vote with a winner and whose result was sent
C33_Witness ==
    \E g \in GroupIds :
        /\ Decided(g)
        /\ groups[g].resultSentAt # NullTime
        /\ votes # {}

FinalizeRecords == {r \in InflightRecords : r.kind = "finalize"}

\* C34: for a closed group every status computed afterwards reports the
\* stored decidedRestaurantId as winnerRestaurantId, null included: the
\* status of the state route (the vote route computes the same one on a
\* closed group), of the close route and of a finalization that resumes.
C34_WinnerIsDecided ==
    /\ \A g \in GroupIds :
           (groups[g] # NoGroup /\ IsClosed(g)) =>
               /\ GetStateResponse(g).status.winnerRestaurantId
                      = groups[g].decidedRestaurantId
               /\ CloseResponse(g).code = 200 =>
                      CloseResponse(g).status.winnerRestaurantId
                          = groups[g].decidedRestaurantId
    /\ \A rec \in FinalizeRecords :
           IsClosed(rec.group) =>
               FinalizeResumeResponse(rec).status.winnerRestaurantId
                   = groups[rec.group].decidedRestaurantId

\* a group that closed without a winner and has members, restaurants and
\* votes, so that computeStatus runs computeWinner again
C34_Witness ==
    \E g \in GroupIds :
        /\ IsClosed(g)
        /\ groups[g].decidedRestaurantId = NullId
        /\ listMembers(g) # {}
        /\ listRestaurants(g) # <<>>
        /\ VotesOf(g) # {}

\* the step closes group g with a winner
ClosesWithWinner(g) ==
    /\ groups[g] # NoGroup
    /\ IsOpen(g)
    /\ groups'[g].status = "closed"
    /\ groups'[g].decidedRestaurantId # NullId

\* C35: the step that closes a group with a decidedRestaurantId picks a
\* restaurant of the group's stored list that has at least one yes vote
\* once the step's vote is recorded; before the deadline its yes-count is at
\* least the threshold for the number of members.
C35_WinnerHadVotes ==
    [][\A g \in GroupIds :
        ClosesWithWinner(g) =>
            LET d == groups'[g].decidedRestaurantId
                yes == CountVotes(votes', g, d, "yes")
            IN  /\ d \in ListIds(listRestaurants(g))
                /\ restaurants' = restaurants
                /\ yes >= 1
                /\ ~DeadlineReached(groups[g], now) =>
                       yes >= Threshold(Cardinality(listMembers(g)))]_vars

\* a group of two members that closed before its deadline on the second yes
\* vote for the decided restaurant
C35_Witness ==
    \E g \in GroupIds :
        /\ Decided(g)
        /\ groups[g].decidedAt < groups[g].deadline
        /\ Cardinality(listMembers(g)) = 2
        /\ CountVotes(votes, g, groups[g].decidedRestaurantId, "yes") = 2

\* the answer carries a status that reports votingComplete
ReportsComplete(response) ==
    response.code = 200 /\ response.status.votingComplete

\* C36: votingComplete is monotone per group.  The status of a group, as
\* the state route computes it, never goes from complete back to not
\* complete; when it is complete every status the vote route, the close
\* route and a resuming finalization compute is complete too; and a vote or
\* close request whose answer reports complete leaves the group's status
\* complete.
C36_VotingCompleteMonotone ==
    /\ [](\A g \in GroupIds :
            (groups[g] # NoGroup /\ StatusOf(g).votingComplete) =>
                /\ \A in \in VoteRequests :
                       VoteResponse(g, in[1], in[2], in[3]).code = 200 =>
                           VoteResponse(g, in[1], in[2], in[3]).status.votingComplete
                /\ CloseResponse(g).code = 200 =>
                       CloseResponse(g).status.votingComplete)
    /\ [](\A rec \in FinalizeRecords :
            /\ FinalizeResumeResponse(rec).status.votingComplete
            /\ StatusOf(rec.group).votingComplete)
    /\ [][\A g \in GroupIds :
            groups[g] # NoGroup =>
                \/ StatusOf(g)'.votingComplete
                \/ /\ ~StatusOf(g).votingComplete
                   /\ \A in \in VoteRequests :
                          ReportsComplete(VoteResponse(g, in[1], in[2], in[3]))
                              => ~Vote(g, in[1], in[2], in[3])
                   /\ ReportsComplete(CloseResponse(g)) => ~Close(g)]_vars

\* a closed group whose deadline is ahead and in which no restaurant has
\* the consensus any more, after a join or a refresh
C36_Witness ==
    \E g \in GroupIds :
        /\ IsClosed(g)
        /\ ~StatusOf(g).deadlineReached
        /\ StatusOf(g).consensusRestaurantId = NullId
        /\ StatusOf(g).votingComplete

\* C37: every stored vote of a group belongs to a member of that group and
\* to a restaurant of the group's stored list, and a vote request naming a
\* member of another group is answered 400.
C37_VotesScoped ==
    /\ \A v \in votes :
           /\ v.memberId \in listMembers(v.groupId)
           /\ v.restaurantId \in ListIds(listRestaurants(v.groupId))
    /\ \A g \in GroupIds : \A in \in VoteRequests :
           (/\ groups[g] # NoGroup
            /\ in[1] \in MemberIds
            /\ members[in[1]].groupId # g) =>
               VoteResponse(g, in[1], in[2], in[3]).code = 400

\* a vote is stored in one group while another group, open and with the
\* same restaurant looked up, has a member of its own
C37_Witness ==
    \E v \in votes : \E m \in MemberIds :
        /\ members[m].groupId # v.groupId
        /\ IsOpen(v.groupId)
        /\ listRestaurants(members[m].groupId) # <<>>

\* summary has one entry per restaurant of list, none above the member
\* count, and zero counts where table has no vote of the group
SummaryFits(summary, list, membersCount, table, g) ==
    /\ DOMAIN summary = ListIds(list)
    /\ \A r \in DOMAIN summary :
           /\ summary[r].yes + summary[r].no <= membersCount
           /\ {v \in table : v.groupId = g /\ v.restaurantId = r} = {}
                  => summary[r] = ZeroCounts

\* the summaries computed from the tables: the one of the state, vote and
\* close routes, and the one a recorded vote is answered with
StoredSummariesFit ==
    \A g \in GroupIds :
        groups[g] # NoGroup =>
            /\ SummaryFits(SummaryOf(votes, g), listRestaurants(g),
                           Cardinality(listMembers(g)), votes, g)
            /\ \A in \in ValidVotes(g) :
                   SummaryFits(VoteResponseSummary(g, in[1], in[2], in[3]),
                               listRestaurants(g), Cardinality(listMembers(g)),
                               IF IsClosed(g) THEN votes
                               ELSE VotesAfter(g, in[1], in[2], in[3]), g)

StorableLists(g) ==
    {<<>>} \cup {ScopedList(g, o.list) : o \in {x \in env.lookupOutcomes : Commits(x)}}

\* C39: when refreshes of one group run side by side, each store step
\* leaves exactly its own result as the group's list, so the list is the
\* result of the store step that ran last; the stored list is never a
\* mixture of two results, and every vote is for a restaurant of the list
\* stored now.
C39_LastWriteWins ==
    /\ [](\A g \in GroupIds : listRestaurants(g) \in StorableLists(g))
    /\ [](\A v \in votes : v.restaurantId \in ListIds(listRestaurants(v.groupId)))
    /\ [][\/ UNCHANGED <<restaurants, votes>>
          \/ \A rec \in LookupRecords : \A o \in env.lookupOutcomes :
                 LookupDone(rec, o) =>
                     /\ Commits(o)
                     /\ restaurants'[rec.group] = ScopedList(rec.group, o.list)
                     /\ {v \in votes' : v.groupId = rec.group} = {}]_vars

\* two refreshes of a group are in flight while the group has a stored list
\* and a vote on it
C39_Witness ==
    \E rec \in LookupRecords :
        /\ inflight[rec] = 2
        /\ listRestaurants(rec.group) # <<>>
        /\ VotesOf(rec.group) # {}

\* what the tables hold for group h
GroupState(h) ==
    <<groups[h], listInvites(h), {<<m, members[m]>> : m \in listMembers(h)},
      listRestaurants(h), VotesOf(h)>>

\* the step is a request addressed to group g, or the continuation of one
Addressed(g) ==
    \/ \E batch \in env.batches : InviteSubmit(g, batch)
    \/ \E id \in 1..MaxInvites : DeleteInvite(g, id)
    \/ \E ok \in BOOLEAN, t \in env.types, c \in env.contacts : Join(g, ok, t, c)
    \/ \E ip \in env.ips : LookupStart(g, ip)
    \/ \E in \in VoteRequests : Vote(g, in[1], in[2], in[3])
    \/ Close(g)
    \/ \E rec \in {r \in InflightRecords : r.group = g} :
           \/ \E o \in env.inviteOutcomes : InviteNotified(rec, o)
           \/ \E o \in env.lookupOutcomes : LookupDone(rec, o)
           \/ \E o \in env.sendOutcomes : FinalizeResume(rec, o)

\* C40: a request addressed to one group, and each of its continuations,
\* leaves the row, the invites, the members, the restaurants and the votes
\* of every other group unchanged.
C40_GroupsIsolated ==
    [][\/ \A h \in GroupIds : GroupState(h)' = GroupState(h)
       \/ \A g \in GroupIds :
              \/ \A h \in GroupIds \ {g} : GroupState(h)' = GroupState(h)
              \/ ~Addressed(g)]_vars

\* both groups have a member, the same restaurant looked up, and a vote
C40_Witness ==
    /\ Cardinality(GroupIds) = 2
    /\ \A g \in GroupIds :
           /\ groups[g] # NoGroup
           /\ listMembers(g) # {}
           /\ listRestaurants(g) = ScopedList(g, <<"r1">>)
           /\ VotesOf(g) # {}

====
